---- MODULE Spec2Model ----
(***************************************************************************)
(* Solar Theme: the update scheduler (updateColors, its periodic timer)    *)
(* and the preview coordinator (panel callbacks, apply-preview-colors      *)
(* command, cooldown timers) of src/src/extension.ts and                   *)
(* src/src/settingsPanel.ts, as one state machine.  Every `await` of the   *)
(* source is a point where the handler yields to the event loop, so an     *)
(* async handler is one action per run-to-completion segment.              *)
(***************************************************************************)
EXTENDS Integers, Sequences, FiniteSets, Bags, TLC

(* ---- bounds of the model ---------------------------------------------- *)
MaxCalls == 2       \* updateColors invocations in flight at once
MaxDirty == 1       \* dirty settings.json documents found by one call
MaxErr == 6         \* cap on updateErrorCount
MaxWarn == 2        \* cap on the number of warnings shown
MaxPreviews == 2    \* preview writes in flight at once

(* ---- program constants ------------------------------------------------ *)
WarnThreshold == 5
PanelCooldownMs == 10000
CmdCooldownMs == 5000

(* Values of solarTheme.updateIntervalSeconds (5 is the default). *)
IntervalChoices == {5, 60}

(* Elapsed-time steps the clock can take between two events. *)
TimeSteps == {5000}

(* The colour maps getCurrentPalette can resolve to as the sun moves. *)
SolarMaps == {"m1", "m2"}

(* ---- colour maps and their serialisation ------------------------------ *)
Undef == "undefined"
Hex == "#102030"

(* The colors argument of a preview request; present = FALSE is a missing *)
(* (undefined) argument.                                                   *)
NoColors == [present |-> FALSE, bg |-> Undef, fg |-> Undef, accent |-> Undef]
Triple(b, f, a) == [present |-> TRUE, bg |-> b, fg |-> f, accent |-> a]
ValidTriple == Triple(Hex, Hex, Hex)
PreviewInputs ==
  {NoColors, ValidTriple, Triple(Undef, Hex, Hex), Triple(Hex, Undef, Hex),
   Triple(Hex, Hex, Undef)}

(* The validity test with its negation lost. *)
ValidColors_Inverted(colors) ==
  ~(colors.present /\ colors.bg # Undef /\ colors.fg # Undef
    /\ colors.accent # Undef)

(* !colors || !colors.bg || !colors.fg || !colors.accent, negated *)
ValidColors(colors) ==
  /\ colors.present
  /\ colors.bg # Undef /\ colors.fg # Undef /\ colors.accent # Undef

(* colorCustomizations built by updateColors from the interpolated palette *)
SolarColorMap(m) == <<"solar", m>>
(* colorCustomizations built from a preview triple *)
PreviewColorMap(colors) == <<"preview", colors.bg, colors.fg, colors.accent>>
(* colorCustomizations built by applyCustomPalettes *)
CustomColorMap(colors) == <<"custom", colors.bg, colors.fg, colors.accent>>
(* JSON.stringify of a colour map; '' is the empty sequence *)
Stringify(map) == <<"{">> \o map \o <<"}">>
EmptyString == <<>>
NoMap == <<>>

VARIABLES
  activated,          \* activate() has run
  enabled,            \* solarTheme.enabled
  showNotifications,  \* solarTheme.showNotifications
  updateIntervalSeconds,  \* solarTheme.updateIntervalSeconds
  solar,              \* the colour map the current solar time resolves to
  store,              \* the style store: workbench / editor customizations
  updateInterval,     \* TRUE once an interval handle has been assigned
  intervalTimers,     \* live interval timers: [ms, cur]
  statusShown,        \* the status bar item is shown
  isPreviewing,
  previewTimeout,     \* TRUE once a timer handle has been assigned
  timers,             \* live cooldown timers: [kind, rem, cur]
  lastAppliedColors,
  updateErrorCount,
  calls,              \* bag of updateColors invocations suspended at an await
  previews,           \* preview writes in flight (sequence, issue order)
  isUpdating,         \* SettingsPanel._isUpdating
  panelVariant,       \* which SettingsPanel source is built in
  ev,                 \* what the last handler segment did (observation)
  warnings,           \* warnings shown so far
  failRun,            \* failing applies since the counter was last zeroed
  runWarns,           \* warnings shown during that run
  everApplied,        \* some scheduler apply has succeeded
  locationInitialized,  \* globalState 'solarTheme.locationInitialized'
  latitude,           \* solarTheme.latitude, in 1/10000 degree
  longitude,          \* solarTheme.longitude, in 1/10000 degree
  locRun,             \* the initializeLocation invocation in flight
  fn                  \* the last application of a pure function

vars == <<activated, enabled, showNotifications, updateIntervalSeconds,
          solar, store, updateInterval, intervalTimers, statusShown,
          isPreviewing, previewTimeout, timers,
          lastAppliedColors, updateErrorCount, calls, previews, isUpdating,
          panelVariant, ev, warnings, failRun, runWarns, everApplied,
          locationInitialized, latitude, longitude, locRun, fn>>

cfgVars == <<enabled, showNotifications, updateIntervalSeconds>>
intervalVars == <<updateInterval, intervalTimers>>
histVars == <<warnings, failRun, runWarns, everApplied>>
previewVars == <<isPreviewing, previewTimeout, timers>>
locVars == <<locationInitialized, latitude, longitude, locRun>>
fixedVars == <<panelVariant, locVars, fn>>

NoCall == [pc |-> "none", force |-> FALSE, map |-> "m1", notify |-> FALSE,
           saves |-> 0, src |-> "plain"]
One(c) == SetToBag({c})
InFlight == BagCardinality(calls)

(* The observation of one handler segment: which handler ran (op), the     *)
(* branch it took (path), the updateColors invocation it belongs to, the   *)
(* store keys it issued a write for, and the messages it showed (resetMsg: *)
(* 'Solar Theme: Colors reset to current time').                           *)
Ev(op, path, force, call, wrote, notified, warned, errMsg, threw) ==
  [op |-> op, path |-> path, force |-> force, call |-> call, wrote |-> wrote,
   notified |-> notified, warned |-> warned, errMsg |-> errMsg,
   threw |-> threw, colors |-> NoColors, cancelled |-> FALSE,
   resetMsg |-> FALSE]
Quiet(op, path) == Ev(op, path, FALSE, NoCall, {}, FALSE, FALSE, FALSE, FALSE)
(* A preview request's segment: the colors it was given, and whether its   *)
(* clearTimeout cancelled a cooldown that had not yet run out.             *)
PreviewEv(op, path, colors, ts, wrote, errMsg, threw) ==
  [Ev(op, path, FALSE, NoCall, wrote, FALSE, FALSE, errMsg, threw)
     EXCEPT !.colors = colors,
            !.cancelled = \E t \in ts : t.cur /\ t.rem > 0]

(* ---- location ---------------------------------------------------------- *)
(* Coordinates are kept in 1/10000 degree.  The values initializeLocation  *)
(* takes for "not set by the user": 30.35 / 40.7128 and -97.74 / -74.006.  *)
IsDefaultLat(currentLat) == currentLat = 303500 \/ currentLat = 407128
IsDefaultLon(currentLon) == currentLon = -977400 \/ currentLon = -740060

(* A JSON member that is a number, and one that is missing. *)
JNum(n) == [present |-> TRUE, num |-> n]
JAbsent == [present |-> FALSE, num |-> 0]
(* JavaScript truthiness of such a member: undefined and 0 are falsy *)
Truthy(v) == v.present /\ v.num # 0

(* What the request to ipapi.co can come to: an 'error' event, the 5 s     *)
(* timeout, or a body, which either fails JSON.parse or is an object with  *)
(* or without the latitude and longitude members.                          *)
DetectedLats == {0, 488566}
DetectedLons == {0, 23522}
Members(vals) == {JAbsent} \cup {JNum(n) : n \in vals}
Responses ==
  {[kind |-> k, latitude |-> JAbsent, longitude |-> JAbsent] :
     k \in {"error", "timeout", "nonJson"}}
  \cup {[kind |-> "json", latitude |-> la, longitude |-> lo] :
          la \in Members(DetectedLats), lo \in Members(DetectedLons)}
NoResponse == [kind |-> "none", latitude |-> JAbsent, longitude |-> JAbsent]

Null == [settled |-> "resolved", some |-> FALSE, latitude |-> 0,
         longitude |-> 0]
Location(lat, lon) == [settled |-> "resolved", some |-> TRUE,
                       latitude |-> lat, longitude |-> lon]
(* autoDetectLocation(): the value its promise settles with *)
AutoDetectLocation(resp) ==
  IF resp.kind = "json"
  THEN IF Truthy(resp.latitude) /\ Truthy(resp.longitude)
       THEN Location(resp.latitude.num, resp.longitude.num)
       ELSE Null
  ELSE Null

LocRun(pc, location, resp) == [pc |-> pc, location |-> location, resp |-> resp]
NoRun == LocRun("idle", Null, NoResponse)
(* initializeLocation() up to its first await *)
InitializeLocation ==
  locRun' =
    IF locationInitialized THEN NoRun
    ELSE IF IsDefaultLat(latitude) /\ IsDefaultLon(longitude)
         THEN LocRun("lookup", Null, NoResponse)
         ELSE LocRun("setFlag", Null, NoResponse)

ProgramInit ==
  /\ activated = FALSE
  /\ enabled \in BOOLEAN
  /\ showNotifications \in BOOLEAN
  /\ updateIntervalSeconds \in IntervalChoices
  /\ solar \in SolarMaps
  /\ store = [workbench |-> NoMap, tokens |-> FALSE]
  /\ updateInterval = FALSE
  /\ intervalTimers = {}
  /\ statusShown = FALSE
  /\ isPreviewing = FALSE
  /\ previewTimeout = FALSE
  /\ timers = {}
  /\ lastAppliedColors = EmptyString
  /\ updateErrorCount = 0
  /\ calls = EmptyBag
  /\ previews = <<>>
  /\ isUpdating = FALSE
  /\ panelVariant \in {"command", "direct"}
  /\ ev = Quiet("init", "none")
  /\ warnings = 0
  /\ failRun = 0
  /\ runWarns = 0
  /\ everApplied = FALSE
  /\ locationInitialized = FALSE
  /\ latitude = 303500
  /\ longitude = -977400
  /\ locRun = NoRun

NoFn == [name |-> "none"]
Init == ProgramInit /\ fn = NoFn

(* ---- updateColors ------------------------------------------------------ *)

(* Variants of the guards below, each with one plausible slip. *)
SkipWhilePreviewing_IgnoresForce(force) == isPreviewing
SkipWhilePreviewing_ForcedOnly(force) == isPreviewing /\ force
SkipUnchanged_Inverted(force, colorsHash) ==
  ~force /\ colorsHash # lastAppliedColors
ShouldNotify_IgnoresConfig(force, notify) == force
ShouldWarn_AtLeast(count) == count >= WarnThreshold

(* if (isPreviewing && !force) return; *)
SkipWhilePreviewing(force) == isPreviewing /\ ~force

(* The unchanged check made to give up once an apply has failed. *)
SkipUnchanged_AfterFailure(force, colorsHash) ==
  ~force /\ (colorsHash = lastAppliedColors \/ updateErrorCount > 0)

(* if (!force && colorsHash === lastAppliedColors) return; *)
SkipUnchanged(force, colorsHash) == ~force /\ colorsHash = lastAppliedColors

(* if (force && config.showNotifications) showInformationMessage(...) *)
ShouldNotify(force, notify) == force /\ notify

(* if (updateErrorCount === 5) showWarningMessage(...) *)
ShouldWarn(count) == count = WarnThreshold

(* The disabled check made to yield to force, as the two checks around it  *)
(* do.                                                                     *)
SkipDisabled_UnlessForced(force, en) == ~en /\ ~force

(* if (!config.enabled) { statusBarItem.hide(); return; } *)
SkipDisabled(force, en) == ~en

(* The async chain an updateColors invocation belongs to: a plain call, or *)
(* resetColors awaiting it (src = "reset"), or toggleEnabled awaiting that *)
(* resetColors (src = "toggleOff").  resetColors shows its message as soon *)
(* as the awaited call returns.                                            *)
Awaited(src) == src \in {"reset", "toggleOff"}

(* The synchronous head of updateColors(force), up to its first await,     *)
(* with base the invocations suspended so far.  en, sn: the configuration  *)
(* getConfig() reads in this call; dirty: the number of dirty              *)
(* settings.json documents the filter finds.  The call keeps               *)
(* config.showNotifications only for the `force &&` test that reads it.    *)
UpdateColorsFrom(base, op, src, force, en, sn, dirty) ==
  IF SkipWhilePreviewing(force)
  THEN /\ UNCHANGED statusShown
       /\ calls' = base
       /\ ev' = [Ev(op, "previewing", force, NoCall, {}, FALSE, FALSE, FALSE,
                    FALSE) EXCEPT !.resetMsg = Awaited(src)]
  ELSE IF SkipDisabled(force, en)
  THEN /\ statusShown' = FALSE
       /\ calls' = base
       /\ ev' = [Ev(op, "disabled", force, NoCall, {}, FALSE, FALSE, FALSE,
                    FALSE) EXCEPT !.resetMsg = Awaited(src)]
  ELSE IF SkipUnchanged(force, Stringify(SolarColorMap(solar)))
  THEN /\ statusShown' = TRUE
       /\ calls' = base
       /\ ev' = [Ev(op, "unchanged", force, NoCall, {}, FALSE, FALSE, FALSE,
                    FALSE) EXCEPT !.resetMsg = Awaited(src)]
  ELSE /\ BagCardinality(base) < MaxCalls
       /\ statusShown' = TRUE
       /\ LET c == [pc |-> IF dirty > 0 THEN "save" ELSE "write1",
                    force |-> force, map |-> solar, notify |-> force /\ sn,
                    saves |-> dirty, src |-> src]
          IN /\ calls' = base (+) One(c)
             /\ ev' = Ev(op, "apply", force, c,
                         IF dirty > 0 THEN {} ELSE {"workbench"},
                         FALSE, FALSE, FALSE, FALSE)

(* updateColors(force) called on its own. *)
UpdateColors(op, force, en, sn, dirty) ==
  UpdateColorsFrom(calls, op, "plain", force, en, sn, dirty)

(* A suspended step of toggleEnabled: its config update of                 *)
(* solarTheme.enabled is pending (cfgWrite) or has been applied (cfgDone). *)
ToggleRecord(pc, src) ==
  [pc |-> pc, force |-> FALSE, map |-> "m1", notify |-> FALSE, saves |-> 0,
   src |-> src]

(* What runs when the updateColors invocation c returns: toggleEnabled     *)
(* goes on to its config update (enabled := false).                        *)
Continuation(c) ==
  IF c.src = "toggleOff" THEN One(ToggleRecord("cfgWrite", "toggleOff"))
  ELSE EmptyBag

(* await doc.save() resolves: the next dirty document is saved, or the     *)
(* first config update is issued.                                          *)
SaveDone(c) ==
  /\ BagIn(c, calls)
  /\ c.pc = "save"
  /\ IF c.saves > 1
     THEN /\ calls' = (calls (-) One(c)) (+) One([c EXCEPT !.saves = @ - 1])
          /\ ev' = Ev("saveDone", "save", c.force, c, {}, FALSE, FALSE,
                      FALSE, FALSE)
     ELSE /\ calls' = (calls (-) One(c)) (+)
                      One([c EXCEPT !.saves = 0, !.pc = "write1"])
          /\ ev' = Ev("saveDone", "apply", c.force, c, {"workbench"}, FALSE,
                      FALSE, FALSE, FALSE)
  /\ UNCHANGED <<activated, cfgVars, solar, store, intervalVars,
                 statusShown, previewVars, lastAppliedColors,
                 updateErrorCount, previews, isUpdating, fixedVars,
                 histVars>>

(* The catch block made to record the colour map it failed to write. *)
ApplyFailed_StoresHash(c, op) ==
  /\ updateErrorCount < MaxErr
  /\ updateErrorCount' = updateErrorCount + 1
  /\ LET warn == ShouldWarn(updateErrorCount + 1)
     IN /\ warn => warnings < MaxWarn
        /\ warnings' = IF warn THEN warnings + 1 ELSE warnings
        /\ runWarns' = IF warn THEN runWarns + 1 ELSE runWarns
        /\ ev' = [Ev(op, "catch", c.force, c, {}, FALSE, warn, FALSE, FALSE)
                   EXCEPT !.resetMsg = Awaited(c.src)]
  /\ failRun' = failRun + 1
  /\ calls' = (calls (-) One(c)) (+) Continuation(c)
  /\ lastAppliedColors' = Stringify(SolarColorMap(c.map))
  /\ UNCHANGED <<store, everApplied>>
(* The catch block of updateColors. *)
ApplyFailed(c, op) ==
  /\ updateErrorCount < MaxErr
  /\ updateErrorCount' = updateErrorCount + 1
  /\ LET warn == ShouldWarn(updateErrorCount + 1)
     IN /\ warn => warnings < MaxWarn
        /\ warnings' = IF warn THEN warnings + 1 ELSE warnings
        /\ runWarns' = IF warn THEN runWarns + 1 ELSE runWarns
        /\ ev' = [Ev(op, "catch", c.force, c, {}, FALSE, warn, FALSE, FALSE)
                   EXCEPT !.resetMsg = Awaited(c.src)]
  /\ failRun' = failRun + 1
  /\ calls' = (calls (-) One(c)) (+) Continuation(c)
  /\ UNCHANGED <<store, lastAppliedColors, everApplied>>

(* The first config update (workbench.colorCustomizations) settles; ok:    *)
(* whether the settings store accepted it.                                 *)
Write1Done(c, ok) ==
  /\ BagIn(c, calls)
  /\ c.pc = "write1"
  /\ IF ok
     THEN /\ store' = [store EXCEPT !.workbench = SolarColorMap(c.map)]
          /\ calls' = (calls (-) One(c)) (+) One([c EXCEPT !.pc = "write2"])
          /\ ev' = Ev("write1Done", "apply", c.force, c, {"tokens"}, FALSE,
                      FALSE, FALSE, FALSE)
          /\ UNCHANGED <<lastAppliedColors, updateErrorCount, histVars>>
     ELSE ApplyFailed(c, "write1Done")
  /\ UNCHANGED <<activated, cfgVars, solar, intervalVars, statusShown,
                 previewVars, previews, isUpdating, fixedVars>>

(* The second config update (editor.tokenColorCustomizations) settles. *)
Write2Done(c, ok) ==
  /\ BagIn(c, calls)
  /\ c.pc = "write2"
  /\ IF ok
     THEN /\ store' = [store EXCEPT !.tokens = TRUE]
          /\ lastAppliedColors' = Stringify(SolarColorMap(c.map))
          /\ updateErrorCount' = 0
          /\ failRun' = 0
          /\ runWarns' = 0
          /\ everApplied' = TRUE
          /\ calls' = (calls (-) One(c)) (+) Continuation(c)
          /\ ev' = [Ev("write2Done", "success", c.force, c, {},
                       ShouldNotify(c.force, c.notify), FALSE, FALSE, FALSE)
                      EXCEPT !.resetMsg = Awaited(c.src)]
          /\ UNCHANGED warnings
     ELSE ApplyFailed(c, "write2Done")
  /\ UNCHANGED <<activated, cfgVars, solar, intervalVars, statusShown,
                 previewVars, previews, isUpdating, fixedVars>>

(* ---- the scheduler's triggers ------------------------------------------ *)

(* clearInterval forgotten: the old timer keeps ticking. *)
ClearInterval_Noop(ts) == ts

(* clearInterval(updateInterval): the timer the handle refers to stops. *)
ClearInterval(ts) == {t \in ts : ~t.cur}

(* updateInterval = setInterval(..., intervalMs) *)
SetInterval(ts, ms) ==
  {[t EXCEPT !.cur = FALSE] : t \in ts} \cup {[ms |-> ms, cur |-> TRUE]}

(* restartUpdateInterval() with config.updateIntervalSeconds = secs *)
RestartUpdateInterval(secs) ==
  /\ updateInterval' = TRUE
  /\ intervalTimers' =
       SetInterval(IF updateInterval THEN ClearInterval(intervalTimers)
                   ELSE intervalTimers, secs * 1000)

(* activate(): initializeLocation(context) (not awaited);                  *)
(* restartUpdateInterval(); updateColors(false)                            *)
Activate(dirty) ==
  /\ ~activated
  /\ activated' = TRUE
  /\ InitializeLocation
  /\ RestartUpdateInterval(updateIntervalSeconds)
  /\ UpdateColors("activate", FALSE, enabled, showNotifications, dirty)
  /\ UNCHANGED <<cfgVars, solar, store, previewVars, lastAppliedColors,
                 updateErrorCount, previews, isUpdating, panelVariant,
                 locationInitialized, latitude, longitude, fn, histVars>>

(* The setInterval callback of restartUpdateInterval: it runs as long as   *)
(* its timer is alive.                                                     *)
TimerTick(dirty) ==
  /\ intervalTimers # {}
  /\ UpdateColors("tick", FALSE, enabled, showNotifications, dirty)
  /\ UNCHANGED <<activated, cfgVars, solar, store, intervalVars,
                 previewVars, lastAppliedColors, updateErrorCount, previews,
                 isUpdating, fixedVars, histVars>>

(* solarTheme.updateNow *)
UpdateNow(dirty) ==
  /\ activated
  /\ UpdateColors("updateNow", TRUE, enabled, showNotifications, dirty)
  /\ UNCHANGED <<activated, cfgVars, solar, store, intervalVars,
                 previewVars, lastAppliedColors, updateErrorCount, previews,
                 isUpdating, fixedVars, histVars>>

(* onDidChangeConfiguration for a change in the solarTheme section that   *)
(* leaves the section at (en, sn, secs):                                   *)
(* restartUpdateInterval(); updateColors(false)                            *)
OnDidChangeConfiguration(en, sn, secs, dirty) ==
  /\ activated
  /\ enabled' = en
  /\ showNotifications' = sn
  /\ updateIntervalSeconds' = secs
  /\ RestartUpdateInterval(secs)
  /\ UpdateColors("configChanged", FALSE, en, sn, dirty)
  /\ UNCHANGED <<activated, solar, store, previewVars, lastAppliedColors,
                 updateErrorCount, previews, isUpdating, fixedVars,
                 histVars>>

(* A change of enabled or showNotifications. *)
ConfigChanged(en, sn, dirty) ==
  OnDidChangeConfiguration(en, sn, updateIntervalSeconds, dirty)

(* solarTheme.resetColors: try { await updateColors(true); show message }  *)
ResetColors(dirty) ==
  /\ activated
  /\ UpdateColorsFrom(calls, "resetColors", "reset", TRUE, enabled,
                      showNotifications, dirty)
  /\ UNCHANGED <<activated, cfgVars, solar, store, intervalVars,
                 previewVars, lastAppliedColors, updateErrorCount, previews,
                 isUpdating, fixedVars, histVars>>

(* solarTheme.toggleEnabled up to its first await: resetColors() when the  *)
(* extension is being switched off, the config update otherwise.           *)
ToggleEnabled(dirty) ==
  /\ activated
  /\ IF enabled
     THEN UpdateColorsFrom(calls, "toggleEnabled", "toggleOff", TRUE,
                           enabled, showNotifications, dirty)
     ELSE /\ InFlight < MaxCalls
          /\ calls' = calls (+) One(ToggleRecord("cfgWrite", "toggleOn"))
          /\ ev' = Quiet("toggleEnabled", "cfgWrite")
          /\ UNCHANGED statusShown
  /\ UNCHANGED <<activated, cfgVars, solar, store, intervalVars,
                 previewVars, lastAppliedColors, updateErrorCount, previews,
                 isUpdating, fixedVars, histVars>>

(* The config update of toggleEnabled is applied and the configuration     *)
(* listener runs (restartUpdateInterval(); updateColors(false)), or the    *)
(* update is rejected and toggleEnabled ends with that error.              *)
ToggleCfgApplied(c, ok, dirty) ==
  /\ BagIn(c, calls)
  /\ c.pc = "cfgWrite"
  /\ IF ok
     THEN /\ enabled' = (c.src = "toggleOn")
          /\ RestartUpdateInterval(updateIntervalSeconds)
          /\ UpdateColorsFrom(
               (calls (-) One(c)) (+) One([c EXCEPT !.pc = "cfgDone"]),
               "configChanged", "plain", FALSE, c.src = "toggleOn",
               showNotifications, dirty)
     ELSE /\ calls' = calls (-) One(c)
          /\ ev' = Ev("toggleEnabled", "cfgFailed", FALSE, NoCall, {}, FALSE,
                      FALSE, FALSE, TRUE)
          /\ UNCHANGED <<enabled, intervalVars, statusShown>>
  /\ UNCHANGED <<activated, showNotifications, updateIntervalSeconds, solar,
                 store, previewVars, lastAppliedColors, updateErrorCount,
                 previews, isUpdating, fixedVars, histVars>>

(* toggleEnabled resumes after its config update: it shows 'Enabled' or    *)
(* 'Disabled' and, when it switched the extension on, calls                *)
(* updateColors(false).                                                    *)
ToggleResume(c, dirty) ==
  /\ BagIn(c, calls)
  /\ c.pc = "cfgDone"
  /\ IF c.src = "toggleOn"
     THEN UpdateColorsFrom(calls (-) One(c), "toggleResume", "plain", FALSE,
                           enabled, showNotifications, dirty)
     ELSE /\ calls' = calls (-) One(c)
          /\ ev' = Quiet("toggleResume", "none")
          /\ UNCHANGED statusShown
  /\ UNCHANGED <<activated, cfgVars, solar, store, intervalVars,
                 previewVars, lastAppliedColors, updateErrorCount, previews,
                 isUpdating, fixedVars, histVars>>

(* ---- the preview coordinator ------------------------------------------- *)

(* clearTimeout forgotten: the old timer stays live. *)
ClearTimeout_Noop(ts) == ts

(* if (previewTimeout) clearTimeout(previewTimeout): the timer the handle  *)
(* refers to is cancelled (a no-op when it has already fired).             *)
ClearTimeout(ts) == {t \in ts : ~t.cur}

(* previewTimeout = setTimeout(..., ms): the handle now refers to the new  *)
(* timer.                                                                  *)
SetTimeout(ts, kind, ms) ==
  {[t EXCEPT !.cur = FALSE] : t \in ts} \cup
  {[kind |-> kind, rem |-> ms, cur |-> TRUE]}

(* The onPreviewStart callback passed to SettingsPanel.createOrShow. *)
OnPreviewStartTimers(ts) ==
  SetTimeout(ClearTimeout(ts), "panel", PanelCooldownMs)

(* The command's setTimeout forgotten: the old cooldown is cancelled and   *)
(* none is armed.                                                          *)
CommandTimers_Unarmed(ts) == ClearTimeout(ts)
(* The head of the apply-preview-colors command. *)
CommandTimers(ts) == SetTimeout(ClearTimeout(ts), "cmd", CmdCooldownMs)

(* The solarTheme.applyPreviewColors handler up to its await, run on the   *)
(* timers ts: suspends the scheduler, re-arms the cooldown, then reads     *)
(* colors.bg (a TypeError when colors is undefined) and issues the write.  *)
CommandBody(op, ts, colors) ==
  /\ isPreviewing' = TRUE
  /\ previewTimeout' = TRUE
  /\ timers' = CommandTimers(ts)
  /\ IF ~colors.present
     THEN /\ UNCHANGED previews
          /\ ev' = PreviewEv(op, "typeError", colors, timers, {},
                             op = "panelPreview", op = "applyPreviewColors")
     ELSE /\ Len(previews) < MaxPreviews
          /\ previews' = Append(previews,
                           [src |-> IF op = "panelPreview" THEN "panelCmd"
                                    ELSE "cmd",
                            map |-> PreviewColorMap(colors)])
          /\ ev' = PreviewEv(op, "preview", colors, timers, {"workbench"},
                             FALSE, FALSE)

(* solarTheme.applyPreviewColors invoked directly (executeCommand). *)
ApplyPreviewColorsCommand(colors) ==
  /\ activated
  /\ CommandBody("applyPreviewColors", timers, colors)
  /\ UNCHANGED <<activated, cfgVars, solar, store, intervalVars,
                 statusShown, lastAppliedColors, updateErrorCount, calls,
                 isUpdating, fixedVars, histVars>>

(* SettingsPanel._previewPhase of src/src/settingsPanel.ts, reached by a   *)
(* previewPhase message: validate, onPreviewStart(), then the command.     *)
PanelPreviewPhase(colors) ==
  /\ activated
  /\ panelVariant = "command"
  /\ IF ~ValidColors(colors)
     THEN /\ ev' = PreviewEv("panelPreview", "invalid", colors, {}, {},
                             TRUE, FALSE)
          /\ UNCHANGED <<previewVars, previews>>
     ELSE CommandBody("panelPreview", OnPreviewStartTimers(timers), colors)
  /\ UNCHANGED <<activated, cfgVars, solar, store, intervalVars,
                 statusShown, lastAppliedColors, updateErrorCount, calls,
                 isUpdating, fixedVars, histVars>>

(* SettingsPanel._previewPhase of src/src/extension.ts (the panel that     *)
(* writes the store itself, guarded by _isUpdating).                       *)
DirectPreviewPhase(colors) ==
  /\ activated
  /\ panelVariant = "direct"
  /\ IF ~ValidColors(colors)
     THEN /\ ev' = PreviewEv("directPreview", "invalid", colors, {}, {},
                             FALSE, FALSE)
          /\ UNCHANGED <<previewVars, previews, isUpdating>>
     ELSE /\ isPreviewing' = TRUE
          /\ previewTimeout' = TRUE
          /\ timers' = OnPreviewStartTimers(timers)
          /\ IF isUpdating
             THEN /\ ev' = PreviewEv("directPreview", "dropped", colors,
                                     timers, {}, FALSE, FALSE)
                  /\ UNCHANGED <<previews, isUpdating>>
             ELSE /\ Len(previews) < MaxPreviews
                  /\ isUpdating' = TRUE
                  /\ previews' = Append(previews,
                                   [src |-> "panel",
                                    map |-> PreviewColorMap(colors)])
                  /\ ev' = PreviewEv("directPreview", "preview", colors,
                                     timers, {"workbench"}, FALSE, FALSE)
  /\ UNCHANGED <<activated, cfgVars, solar, store, intervalVars,
                 statusShown, lastAppliedColors, updateErrorCount, calls,
                 fixedVars, histVars>>

(* applyCustomPalettes(customColors), the panel's colorsChanged callback;  *)
(* colors is customColors[phase] for the current phase.  The config update *)
(* is issued and neither awaited nor given a rejection handler.            *)
ApplyCustomPalettes(colors) ==
  /\ activated
  /\ IF ~colors.present
     THEN /\ UNCHANGED previews
          /\ ev' = PreviewEv("applyCustomPalettes", "none", colors, {}, {},
                             FALSE, FALSE)
     ELSE /\ Len(previews) < MaxPreviews
          /\ previews' = Append(previews, [src |-> "custom",
                                           map |-> CustomColorMap(colors)])
          /\ ev' = PreviewEv("applyCustomPalettes", "custom", colors, {},
                             {"workbench"}, FALSE, FALSE)
  /\ UNCHANGED <<activated, cfgVars, solar, store, intervalVars,
                 statusShown, previewVars, lastAppliedColors,
                 updateErrorCount, calls, isUpdating, fixedVars,
                 histVars>>

RemoveAt(seq, k) == [j \in 1..(Len(seq) - 1) |->
                       IF j < k THEN seq[j] ELSE seq[j + 1]]

(* The config update of a preview settles: the command records the map in  *)
(* lastAppliedColors on success, the panel clears _isUpdating either way;  *)
(* a rejected update of applyCustomPalettes has no handler.                *)
PreviewWriteDone(k, ok) ==
  /\ k \in 1..Len(previews)
  /\ LET p == previews[k]
     IN /\ previews' = RemoveAt(previews, k)
        /\ store' = IF ok THEN [store EXCEPT !.workbench = p.map] ELSE store
        /\ lastAppliedColors' =
             IF ok /\ p.src \in {"cmd", "panelCmd"} THEN Stringify(p.map)
             ELSE lastAppliedColors
        /\ isUpdating' = IF p.src = "panel" THEN FALSE ELSE isUpdating
        /\ ev' = [Quiet("previewWriteDone",
                         IF ok THEN "success"
                         ELSE IF p.src = "custom" THEN "unhandled"
                         ELSE "catch")
                   EXCEPT !.threw = (~ok /\ p.src = "custom")]
  /\ UNCHANGED <<activated, cfgVars, solar, intervalVars, statusShown,
                 previewVars, updateErrorCount, calls, fixedVars,
                 histVars>>

(* The panel's cooldown callback given the body of the command's. *)
CooldownExpired_AnyKind(t) ==
  /\ t \in timers
  /\ t.rem = 0
  /\ timers' = timers \ {t}
  /\ isPreviewing' = FALSE
  /\ updateErrorCount' = 0
  /\ IF t.kind = "cmd"
     THEN failRun' = 0 /\ runWarns' = 0
     ELSE UNCHANGED <<failRun, runWarns>>
  /\ ev' = Quiet("cooldownExpired", t.kind)
  /\ UNCHANGED <<activated, cfgVars, solar, store, intervalVars,
                 statusShown, previewTimeout, lastAppliedColors, calls,
                 previews, isUpdating, fixedVars, warnings, everApplied>>
(* A cooldown timer fires: the panel's callback clears isPreviewing, the   *)
(* command's callback also zeroes updateErrorCount.                        *)
CooldownExpired(t) ==
  /\ t \in timers
  /\ t.rem = 0
  /\ timers' = timers \ {t}
  /\ isPreviewing' = FALSE
  /\ IF t.kind = "cmd"
     THEN /\ updateErrorCount' = 0
          /\ failRun' = 0
          /\ runWarns' = 0
     ELSE UNCHANGED <<updateErrorCount, failRun, runWarns>>
  /\ ev' = Quiet("cooldownExpired", t.kind)
  /\ UNCHANGED <<activated, cfgVars, solar, store, intervalVars,
                 statusShown, previewTimeout, lastAppliedColors, calls,
                 previews, isUpdating, fixedVars, warnings, everApplied>>

(* ---- the environment --------------------------------------------------- *)

(* d milliseconds pass. *)
Advance(d) ==
  /\ \E t \in timers : t.rem > 0
  /\ timers' = {[t EXCEPT !.rem = IF @ > d THEN @ - d ELSE 0] : t \in timers}
  /\ ev' = Quiet("env", "advance")
  /\ UNCHANGED <<activated, cfgVars, solar, store, intervalVars,
                 statusShown, isPreviewing, previewTimeout, lastAppliedColors,
                 updateErrorCount, calls, previews, isUpdating, fixedVars,
                 histVars>>

(* The sun moves far enough for the interpolated palette to change. *)
SunMoves ==
  /\ \E m \in SolarMaps \ {solar} : solar' = m
  /\ ev' = Quiet("env", "sunMoves")
  /\ UNCHANGED <<activated, cfgVars, store, intervalVars, statusShown,
                 previewVars, lastAppliedColors, updateErrorCount, calls,
                 previews, isUpdating, fixedVars, histVars>>

CallRecords ==
  [pc : {"save", "write1", "write2"}, force : BOOLEAN, map : SolarMaps,
   notify : BOOLEAN, saves : 0..MaxDirty, src : {"plain"}] \cup
  [pc : {"save", "write1", "write2"}, force : {TRUE}, map : SolarMaps,
   notify : BOOLEAN, saves : 0..MaxDirty, src : {"reset", "toggleOff"}]

ToggleRecords ==
  {ToggleRecord(pc, src) : pc \in {"cfgWrite", "cfgDone"},
                           src \in {"toggleOff", "toggleOn"}}

(* ---- specifications ---------------------------------------------------- *)

(* Each specification draws the program's events from one workload and     *)
(* caps what is in flight at once.                                         *)
SchedCalls == 1
SchedErrCap == 1
SchedPreviews == 1

(* The scheduler, with the apply-preview-colors command as the source of   *)
(* previews.                                                               *)
Next ==
  \/ \E dirty \in 0..MaxDirty : Activate(dirty)
  \/ \E dirty \in 0..MaxDirty : TimerTick(dirty) /\ InFlight' <= SchedCalls
  \/ \E dirty \in 0..MaxDirty : UpdateNow(dirty) /\ InFlight' <= SchedCalls
  \/ \E en \in BOOLEAN, sn \in BOOLEAN, dirty \in 0..MaxDirty :
       ConfigChanged(en, sn, dirty) /\ InFlight' <= SchedCalls
  \/ \E c \in CallRecords : SaveDone(c)
  \/ \E c \in CallRecords, ok \in BOOLEAN :
       Write1Done(c, ok) /\ updateErrorCount' <= SchedErrCap
  \/ \E c \in CallRecords, ok \in BOOLEAN :
       Write2Done(c, ok) /\ updateErrorCount' <= SchedErrCap
  \/ ApplyPreviewColorsCommand(ValidTriple) /\ Len(previews') <= SchedPreviews
  \/ \E k \in 1..MaxPreviews, ok \in BOOLEAN : PreviewWriteDone(k, ok)
  \/ \E t \in timers : CooldownExpired(t)
  \/ \E d \in TimeSteps : Advance(d)
  \/ SunMoves

InitSched == Init /\ panelVariant = "command" /\ updateIntervalSeconds = 5

Spec == InitSched /\ [][Next]_vars

(* Overlapping updateColors calls: every trigger of a non-forced call,     *)
(* with no preview and an enabled extension.                               *)
NextOverlap ==
  \/ \E dirty \in 0..MaxDirty : Activate(dirty)
  \/ \E dirty \in 0..MaxDirty : TimerTick(dirty)
  \/ \E sn \in BOOLEAN, dirty \in 0..MaxDirty : ConfigChanged(TRUE, sn, dirty)
  \/ \E c \in CallRecords : SaveDone(c)
  \/ \E c \in CallRecords, ok \in BOOLEAN :
       Write1Done(c, ok) /\ updateErrorCount' <= SchedErrCap
  \/ \E c \in CallRecords, ok \in BOOLEAN :
       Write2Done(c, ok) /\ updateErrorCount' <= SchedErrCap
  \/ SunMoves

InitOverlap ==
  /\ Init /\ panelVariant = "command" /\ enabled = TRUE
  /\ updateIntervalSeconds = 5

SpecOverlap == InitOverlap /\ [][NextOverlap]_vars

(* Failing applies: the error counter up to MaxErr, with forced updates,   *)
(* configuration changes and command previews interleaved.                 *)
ErrCalls == 1
ErrPreviews == 1

NextErr ==
  \/ Activate(0)
  \/ TimerTick(0) /\ InFlight' <= ErrCalls
  \/ UpdateNow(0) /\ InFlight' <= ErrCalls
  \/ \E en \in BOOLEAN :
       ConfigChanged(en, showNotifications, 0) /\ InFlight' <= ErrCalls
  \/ \E c \in CallRecords, ok \in BOOLEAN : Write1Done(c, ok)
  \/ \E c \in CallRecords, ok \in BOOLEAN : Write2Done(c, ok)
  \/ ApplyPreviewColorsCommand(ValidTriple) /\ Len(previews') <= ErrPreviews
  \/ \E k \in 1..MaxPreviews, ok \in BOOLEAN : PreviewWriteDone(k, ok)
  \/ \E t \in timers : CooldownExpired(t)
  \/ \E d \in TimeSteps : Advance(d)

InitErr ==
  /\ Init /\ panelVariant = "command" /\ showNotifications = FALSE
  /\ solar = "m1" /\ updateIntervalSeconds = 5

SpecErr == InitErr /\ [][NextErr]_vars

(* The preview coordinator: every entry point of a preview request, with   *)
(* every shape of the colors argument, for either SettingsPanel source.    *)
PreviewCalls == 1

NextPreview ==
  \/ Activate(0)
  \/ TimerTick(0) /\ InFlight' <= PreviewCalls
  \/ \E c \in CallRecords, ok \in BOOLEAN :
       Write1Done(c, ok) /\ updateErrorCount' <= SchedErrCap
  \/ \E c \in CallRecords, ok \in BOOLEAN :
       Write2Done(c, ok) /\ updateErrorCount' <= SchedErrCap
  \/ \E colors \in PreviewInputs : ApplyPreviewColorsCommand(colors)
  \/ \E colors \in PreviewInputs : PanelPreviewPhase(colors)
  \/ \E colors \in PreviewInputs : DirectPreviewPhase(colors)
  \/ \E k \in 1..MaxPreviews, ok \in BOOLEAN : PreviewWriteDone(k, ok)
  \/ \E t \in timers : CooldownExpired(t)
  \/ \E d \in TimeSteps : Advance(d)

InitPreview ==
  /\ Init /\ enabled = TRUE /\ showNotifications = FALSE /\ solar = "m1"
  /\ updateIntervalSeconds = 5

SpecPreview == InitPreview /\ [][NextPreview]_vars

(* The periodic timer: configuration changes of every setting the          *)
(* scheduler reads, between ticks and applies.                             *)
IntervalCalls == 1

NextInterval ==
  \/ \E dirty \in 0..MaxDirty : Activate(dirty)
  \/ \E dirty \in 0..MaxDirty : TimerTick(dirty) /\ InFlight' <= IntervalCalls
  \/ \E en \in BOOLEAN, sn \in BOOLEAN, secs \in IntervalChoices,
        dirty \in 0..MaxDirty :
       /\ OnDidChangeConfiguration(en, sn, secs, dirty)
       /\ InFlight' <= IntervalCalls
  \/ \E c \in CallRecords : SaveDone(c)
  \/ \E c \in CallRecords, ok \in BOOLEAN :
       Write1Done(c, ok) /\ updateErrorCount' <= SchedErrCap
  \/ \E c \in CallRecords, ok \in BOOLEAN :
       Write2Done(c, ok) /\ updateErrorCount' <= SchedErrCap
  \/ SunMoves

InitInterval == Init /\ panelVariant = "command"

SpecInterval == InitInterval /\ [][NextInterval]_vars

(* The commands: forced updates, reset and toggle, around ticks and a      *)
(* preview.                                                                *)
CmdErrCap == 1
CmdPreviews == 1

NextCommands ==
  \/ Activate(0)
  \/ TimerTick(0)
  \/ UpdateNow(0)
  \/ ResetColors(0)
  \/ ToggleEnabled(0)
  \/ \E c \in ToggleRecords, ok \in BOOLEAN : ToggleCfgApplied(c, ok, 0)
  \/ \E c \in ToggleRecords : ToggleResume(c, 0)
  \/ \E c \in CallRecords, ok \in BOOLEAN :
       Write1Done(c, ok) /\ updateErrorCount' <= CmdErrCap
  \/ \E c \in CallRecords, ok \in BOOLEAN :
       Write2Done(c, ok) /\ updateErrorCount' <= CmdErrCap
  \/ ApplyPreviewColorsCommand(ValidTriple) /\ Len(previews') <= CmdPreviews
  \/ \E k \in 1..MaxPreviews, ok \in BOOLEAN : PreviewWriteDone(k, ok)
  \/ \E t \in timers : CooldownExpired(t)
  \/ \E d \in TimeSteps : Advance(d)

InitCommands ==
  /\ Init /\ panelVariant = "command" /\ showNotifications = FALSE
  /\ solar = "m1" /\ updateIntervalSeconds = 5

SpecCommands == InitCommands /\ [][NextCommands]_vars

(* The writers of the style store: the scheduler with its save of dirty    *)
(* documents, the preview command, both panels and the live colour edit.   *)
WriterCalls == 1
WriterErrCap == 2

NextWriters ==
  \/ \E dirty \in 0..MaxDirty : Activate(dirty)
  \/ \E dirty \in 0..MaxDirty : TimerTick(dirty) /\ InFlight' <= WriterCalls
  \/ \E c \in CallRecords : SaveDone(c)
  \/ \E c \in CallRecords, ok \in BOOLEAN :
       Write1Done(c, ok) /\ updateErrorCount' <= WriterErrCap
  \/ \E c \in CallRecords, ok \in BOOLEAN :
       Write2Done(c, ok) /\ updateErrorCount' <= WriterErrCap
  \/ ApplyPreviewColorsCommand(ValidTriple)
  \/ PanelPreviewPhase(ValidTriple)
  \/ DirectPreviewPhase(ValidTriple)
  \/ \E colors \in {NoColors, ValidTriple} : ApplyCustomPalettes(colors)
  \/ \E k \in 1..MaxPreviews, ok \in BOOLEAN : PreviewWriteDone(k, ok)
  \/ \E t \in timers : CooldownExpired(t)
  \/ \E d \in TimeSteps : Advance(d)

InitWriters ==
  /\ Init /\ enabled = TRUE /\ showNotifications = FALSE /\ solar = "m1"
  /\ updateIntervalSeconds = 5

SpecWriters == InitWriters /\ [][NextWriters]_vars

(* Failing and recovering applies under fair scheduling: the interval      *)
(* timer keeps firing, every config update settles, and the sun keeps      *)
(* moving.  The palette stays different from the last applied one for far  *)
(* longer than one timer interval, so a tick that finds it different is    *)
(* not postponed for ever (strong fairness of the applying tick).          *)
HealCalls == 1
HealPreviews == 1
HealErrCap == 2

HealTick == TimerTick(0) /\ InFlight' <= HealCalls
ApplyingTick == HealTick /\ ev'.path = "apply"
HealWrite1 ==
  \E c \in CallRecords, ok \in BOOLEAN :
    Write1Done(c, ok) /\ updateErrorCount' <= HealErrCap
HealWrite2 ==
  \E c \in CallRecords, ok \in BOOLEAN :
    Write2Done(c, ok) /\ updateErrorCount' <= HealErrCap

NextHeal ==
  \/ Activate(0)
  \/ HealTick
  \/ \E en \in BOOLEAN :
       ConfigChanged(en, showNotifications, 0) /\ InFlight' <= HealCalls
  \/ HealWrite1
  \/ HealWrite2
  \/ ApplyPreviewColorsCommand(ValidTriple) /\ Len(previews') <= HealPreviews
  \/ \E k \in 1..MaxPreviews, ok \in BOOLEAN : PreviewWriteDone(k, ok)
  \/ \E t \in timers : CooldownExpired(t)
  \/ \E d \in TimeSteps : Advance(d)
  \/ SunMoves

InitHeal ==
  /\ Init /\ panelVariant = "command" /\ enabled = TRUE
  /\ showNotifications = FALSE /\ solar = "m1" /\ updateIntervalSeconds = 5

SpecHeal ==
  /\ InitHeal /\ [][NextHeal]_vars
  /\ WF_vars(HealTick) /\ SF_vars(ApplyingTick)
  /\ WF_vars(HealWrite1) /\ WF_vars(HealWrite2)
  /\ WF_vars(SunMoves)

TypeOK ==
  /\ updateErrorCount \in 0..MaxErr
  /\ warnings \in 0..MaxWarn
  /\ Len(previews) <= MaxPreviews
  /\ InFlight <= MaxCalls

(* ---- properties -------------------------------------------------------- *)

NonForcedTriggers == {"activate", "tick", "configChanged"}
PreviewOps == {"applyPreviewColors", "panelPreview", "directPreview"}
SolarHash == Stringify(SolarColorMap(solar))

(* C1: a non-forced updateColors call made with the extension enabled, no  *)
(* preview active and a colour map that serialises to lastAppliedColors    *)
(* issues no write to either key of the style store, starts nothing that   *)
(* could write later, and leaves lastAppliedColors and updateErrorCount    *)
(* as they were.                                                           *)
C1_UnchangedTickWritesNothing ==
  [][(/\ ev'.op \in NonForcedTriggers
      /\ enabled'
      /\ ~isPreviewing
      /\ SolarHash = lastAppliedColors)
     => (/\ ev'.wrote = {}
         /\ calls' = calls
         /\ UNCHANGED <<store, lastAppliedColors, updateErrorCount>>)]_vars

C1_Witness ==
  /\ ev.op = "tick"
  /\ ev.path = "unchanged"
  /\ enabled
  /\ ~isPreviewing
  /\ everApplied
  /\ lastAppliedColors = SolarHash

(* The write of the colour map has been issued by this segment, or the     *)
(* call is suspended in its loop over the dirty settings documents, from   *)
(* which it can only go on to the write.                                   *)
WriteIssuedOrPending ==
  \/ ev'.wrote = {"workbench"}
  \/ /\ ev'.op = "updateNow"
     /\ ev'.call.pc = "save"
     /\ BagIn(ev'.call, calls')
  \/ /\ ev'.op = "saveDone"
     /\ ev'.call.saves > 1
     /\ BagIn([ev'.call EXCEPT !.saves = @ - 1], calls')

(* C2 as stated: updateColors(true) writes the colour map to the style     *)
(* store in every reachable state.                                         *)
C2_ForcedAlwaysWrites ==
  [][/\ ev'.op = "updateNow" => WriteIssuedOrPending
     /\ (ev'.op = "saveDone" /\ ev'.call.force) => WriteIssuedOrPending]_vars

(* C2 amended: updateColors(true) called while the extension is enabled    *)
(* writes the colour map to the style store, whether or not the map's hash *)
(* equals lastAppliedColors and whether or not isPreviewing is true.       *)
C2_ForcedEnabledWrites ==
  [][/\ (ev'.op = "updateNow" /\ enabled) => WriteIssuedOrPending
     /\ (ev'.op = "saveDone" /\ ev'.call.force) => WriteIssuedOrPending]_vars

C2_Witness ==
  /\ ev.op = "updateNow"
  /\ ev.wrote = {"workbench"}
  /\ isPreviewing
  /\ lastAppliedColors = SolarHash

(* A forced updateColors call has just returned: at the disabled check, in *)
(* the catch block, or after both writes.                                  *)
ForcedCallReturned ==
  /\ ev.op \in {"updateNow", "write1Done", "write2Done"}
  /\ ev.force
  /\ ev.path \in {"disabled", "catch", "success"}

(* C3 as stated: a forced call shows a notification if and only if         *)
(* showNotifications (as the call read it) is true.                        *)
C3_ForcedNotifiesIffConfigured ==
  ForcedCallReturned =>
    (ev.notified <=>
       IF ev.path = "disabled" THEN showNotifications ELSE ev.call.notify)

(* C3 amended: a forced call shows a notification if and only if           *)
(* showNotifications was true when it read the configuration, the          *)
(* extension was enabled, and both writes to the style store succeeded.    *)
C3_ForcedNotifiesOnSuccessIffConfigured ==
  ForcedCallReturned =>
    (ev.notified <=> (ev.path = "success" /\ ev.call.notify))

C3_Witness ==
  /\ ForcedCallReturned
  /\ ev.path = "success"
  /\ ev.call.notify
  /\ ev.notified

(* C4: counting from updateErrorCount = 0, the failing applies of a run    *)
(* show no warning before the fifth, exactly one on the fifth, and none    *)
(* after it.                                                               *)
ApplyJustFailed ==
  ev.op \in {"write1Done", "write2Done"} /\ ev.path = "catch"

C4_OneWarningOnFifthFailure ==
  /\ runWarns = (IF failRun >= 5 THEN 1 ELSE 0)
  /\ ApplyJustFailed => (ev.warned <=> failRun = 5)

C4_Witness ==
  /\ failRun = 6
  /\ runWarns = 1
  /\ ApplyJustFailed
  /\ ~ev.warned

(* C5: as long as no scheduler apply has succeeded, the warning has been   *)
(* shown at most once.                                                     *)
C5_AtMostOneWarningWhileFailing ==
  ~everApplied => warnings <= 1

(* C6: no non-forced updateColors call issues its write of the colour map  *)
(* while isPreviewing is true.                                             *)
C6_NoSchedulerWriteWhilePreviewing ==
  (/\ ev.op \in NonForcedTriggers \cup {"saveDone"}
   /\ ~ev.force
   /\ ev.wrote = {"workbench"})
  => ~isPreviewing

(* The non-forced calls in flight that have issued their write of map m. *)
NonForcedWriters(m) ==
  CopiesIn([pc |-> "write1", force |-> FALSE, map |-> m, notify |-> FALSE,
            saves |-> 0, src |-> "plain"], calls) +
  CopiesIn([pc |-> "write2", force |-> FALSE, map |-> m, notify |-> FALSE,
            saves |-> 0, src |-> "plain"], calls)

(* C7: two non-forced updateColors calls that overlap never both write the *)
(* same colour map.                                                        *)
C7_NoDuplicateWrite ==
  \A m \in SolarMaps : NonForcedWriters(m) <= 1

(* C8: a non-forced updateColors call that starts while isPreviewing is    *)
(* true writes nothing and changes none of lastAppliedColors,              *)
(* updateErrorCount, isPreviewing and the status indicator.                *)
C8_PreviewingTickIsNoOp ==
  [][(ev'.op \in NonForcedTriggers /\ isPreviewing)
     => (/\ ev'.wrote = {}
         /\ calls' = calls
         /\ UNCHANGED <<store, lastAppliedColors, updateErrorCount,
                        isPreviewing, statusShown>>)]_vars

C8_Witness ==
  /\ ev.op = "tick"
  /\ ev.path = "previewing"
  /\ isPreviewing
  /\ lastAppliedColors # SolarHash

(* The cooldown a preview request arms last. *)
FullCooldown(op) ==
  IF op = "directPreview"
  THEN [kind |-> "panel", rem |-> PanelCooldownMs, cur |-> TRUE]
  ELSE [kind |-> "cmd", rem |-> CmdCooldownMs, cur |-> TRUE]

(* C9: isPreviewing is true for as long as a cooldown timer has time left, *)
(* a request cancels the timer armed before it (one timer is live at       *)
(* most), and every request that reaches the coordinator leaves the timer  *)
(* armed with its full duration.                                           *)
C9_SuspendedUntilLastCooldownElapses ==
  /\ \A t \in timers : t.rem > 0 => isPreviewing
  /\ Cardinality(timers) <= 1
  /\ (ev.op \in PreviewOps /\ ev.path \in {"preview", "dropped", "typeError"})
       => timers = {FullCooldown(ev.op)}

C9_Witness ==
  /\ ev.op \in PreviewOps
  /\ ev.cancelled
  /\ isPreviewing
  /\ timers = {FullCooldown(ev.op)}

(* C10: a preview request whose colors argument is missing or lacks one of *)
(* bg, fg, accent writes nothing, throws nothing, shows no error and       *)
(* leaves isPreviewing and the cooldown timer alone, on every entry point. *)
C10_InvalidPreviewRejectedSilently ==
  [][(ev'.op \in PreviewOps /\ ~ValidColors(ev'.colors))
     => (/\ ev'.wrote = {}
         /\ ~ev'.threw
         /\ ~ev'.errMsg
         /\ UNCHANGED <<isPreviewing, timers, previews>>)]_vars

(* The request of this step has issued the write of its own triple: the    *)
(* write of the preview colour map is the newest one in flight.            *)
PreviewWriteIssued ==
  /\ ev'.wrote = {"workbench"}
  /\ Len(previews') = Len(previews) + 1
  /\ previews'[Len(previews')].map = PreviewColorMap(ev'.colors)

(* C11 as stated: every preview request with a complete triple issues the  *)
(* write of that triple in the step that receives it, whatever             *)
(* lastAppliedColors holds.                                                *)
C11_ValidPreviewAlwaysWrites ==
  [][(ev'.op \in PreviewOps /\ ev'.colors = ValidTriple)
     => PreviewWriteIssued]_vars

(* C11 amended: every preview request with a complete triple that the      *)
(* panel of extension.ts does not drop for its _isUpdating flag issues the *)
(* write of that triple in the step that receives it, whatever             *)
(* lastAppliedColors holds.                                                *)
C11_ValidPreviewWritesUnlessDropped ==
  [][(/\ ev'.op \in PreviewOps
      /\ ev'.colors = ValidTriple
      /\ ~(ev'.op = "directPreview" /\ isUpdating))
     => PreviewWriteIssued]_vars

C11_Witness ==
  /\ ev.op \in PreviewOps
  /\ ev.colors = ValidTriple
  /\ ev.wrote = {"workbench"}
  /\ lastAppliedColors = Stringify(PreviewColorMap(ev.colors))

(* C12: the callback of every cooldown timer leaves isPreviewing false and *)
(* updateErrorCount at 0.  A timer that fires is the one armed by the last *)
(* preview request (C9), so no request came between arming and expiry.     *)
C12_CooldownExpiryResumesAndResets ==
  [][ev'.op = "cooldownExpired"
     => (~isPreviewing' /\ updateErrorCount' = 0)]_vars

(* The preview writes in flight that a request of the settings panel       *)
(* started (through the command, or by the panel itself).                  *)
PanelWritesInFlight ==
  Cardinality({k \in 1..Len(previews) :
                 previews[k].src \in {"panelCmd", "panel"}})

(* C13: at most one preview write started by the settings panel is in      *)
(* flight: a request that arrives while one is in flight starts no second  *)
(* write.                                                                  *)
C13_OnePanelPreviewWriteInFlight ==
  PanelWritesInFlight <= 1

(* C14: the configuration-change handler leaves exactly one periodic timer *)
(* alive, the one it has just created with the interval of the new         *)
(* configuration, and makes one non-forced updateColors call in the same   *)
(* step; no timer other than the one the handle refers to is ever left to  *)
(* tick.                                                                   *)
C14_ConfigChangeRestartsTimer ==
  /\ [][ev'.op = "configChanged"
        => (/\ intervalTimers' =
                 {[ms |-> updateIntervalSeconds' * 1000, cur |-> TRUE]}
            /\ ~ev'.force
            /\ InFlight' =
                 InFlight + (IF ev'.path = "apply" THEN 1 ELSE 0))]_vars
  /\ [](\A t \in intervalTimers : t.cur)

C14_Witness ==
  /\ ev.op = "configChanged"
  /\ ev.path = "apply"
  /\ updateIntervalSeconds = 60
  /\ intervalTimers = {[ms |-> 60000, cur |-> TRUE]}

(* The suspended updateColors invocations (the steps of toggleEnabled that *)
(* wait for its config update are not among them).                         *)
UpdateCallsInFlight ==
  InFlight - (CopiesIn(ToggleRecord("cfgWrite", "toggleOff"), calls) +
              CopiesIn(ToggleRecord("cfgWrite", "toggleOn"), calls) +
              CopiesIn(ToggleRecord("cfgDone", "toggleOff"), calls) +
              CopiesIn(ToggleRecord("cfgDone", "toggleOn"), calls))

(* The handler segments that call updateColors. *)
UpdateCallOps ==
  {"activate", "tick", "updateNow", "configChanged", "resetColors"}

(* This step has called updateColors. *)
UpdateCallMade ==
  \/ ev'.op \in UpdateCallOps
  \/ ev'.op = "toggleResume" /\ ev'.path # "none"

(* C15: an updateColors call (tick, activation, configuration listener,    *)
(* forced update, reset) that reads enabled = false issues no write,       *)
(* suspends nothing that could write later, leaves the style store,        *)
(* lastAppliedColors and updateErrorCount as they were, and leaves the     *)
(* periodic timer alive.                                                   *)
C15_DisabledCallAppliesNothing ==
  [][(UpdateCallMade /\ ~enabled')
     => (/\ ev'.wrote = {}
         /\ UpdateCallsInFlight' = UpdateCallsInFlight
         /\ UNCHANGED <<store, lastAppliedColors, updateErrorCount>>
         /\ intervalTimers' # {})]_vars

C15_Witness ==
  /\ ev.op \in {"updateNow", "resetColors"}
  /\ ev.path = "disabled"
  /\ ~enabled
  /\ everApplied
  /\ lastAppliedColors = SolarHash
  /\ intervalTimers # {}

(* C16: after every updateColors call that reads enabled = false, with or  *)
(* without a preview active, the status bar item is not shown; so it is    *)
(* not shown once toggleEnabled has switched the extension off and the     *)
(* configuration listener has run.                                         *)
C16_StatusHiddenWhenDisabled ==
  [][(UpdateCallMade /\ ~enabled') => ~statusShown']_vars

(* C20: the message 'Colors reset to current time' is shown only by the    *)
(* step in which the second write of a forced apply has succeeded, with    *)
(* the colour map of the current solar time in the style store.            *)
C20_ResetMessageMeansApplied ==
  ev.resetMsg =>
    (/\ ev.op = "write2Done"
     /\ ev.path = "success"
     /\ ev.force
     /\ store.workbench = SolarColorMap(ev.call.map))

(* C17: no failed write to the style store ends as an unhandled rejection, *)
(* whichever writer issued it, and a failed scheduler write has been       *)
(* counted in updateErrorCount.                                            *)
C17_WriteFailuresCaught ==
  /\ (ev.op \in {"write1Done", "write2Done", "previewWriteDone"})
       => ~ev.threw
  /\ ApplyJustFailed => updateErrorCount > 0

(* C19: with showNotifications true, the step in which a scheduler apply   *)
(* succeeds shows a notification, for a non-forced call as for a forced    *)
(* one; a notification is shown only by a call that read showNotifications *)
(* as true.                                                                *)
C19_SuccessfulApplyNotifies ==
  (ev.op = "write2Done" /\ ev.path = "success")
  => (/\ showNotifications => ev.notified
      /\ ev.notified => ev.call.notify)

(* From here on the store accepts every scheduler write, the extension is  *)
(* active and enabled and no preview is active.                            *)
Recovered == activated /\ enabled /\ ~isPreviewing /\ ~ApplyJustFailed

(* A tick's apply has just succeeded: both writes went through, the error  *)
(* counter is 0 and lastAppliedColors is the hash of the map written.      *)
Healed ==
  /\ ev.op = "write2Done"
  /\ ev.path = "success"
  /\ ~ev.force
  /\ updateErrorCount = 0
  /\ lastAppliedColors = Stringify(SolarColorMap(ev.call.map))

(* C18: no failing apply stops the periodic timer, and if from some point  *)
(* on the store stays writable, the extension enabled and no preview       *)
(* active, then a tick's apply succeeds after that point (and again when   *)
(* the palette changes) and updateErrorCount stays 0 from then on.         *)
C18_SchedulerSelfHeals ==
  /\ [](activated => intervalTimers # {})
  /\ [][ApplyJustFailed' => UNCHANGED intervalVars]_vars
  /\ <>[]Recovered => ([]<>Healed /\ <>[](updateErrorCount = 0))

(* After two failed applies, with the extension enabled and no preview     *)
(* active, a tick's first write has gone through and its second is         *)
(* pending.                                                                *)
C18_Witness ==
  /\ Recovered
  /\ updateErrorCount = 2
  /\ ev.op = "write1Done"
  /\ ev.path = "apply"
  /\ ~ev.force
  /\ BagIn([ev.call EXCEPT !.pc = "write2"], calls)
  /\ store.workbench = SolarColorMap(solar)

(* ---- initializeLocation, after its first await -------------------------- *)
UserLats == {515074}
UserLons == {-1278}

(* await autoDetectLocation() settles; with a location the first           *)
(* config.update is issued, otherwise the flag is saved next.              *)
LookupSettled(resp) ==
  /\ locRun.pc = "lookup"
  /\ LET location == AutoDetectLocation(resp)
     IN  locRun' = LocRun(IF location.some THEN "writeLat" ELSE "setFlag",
                          location, resp)
  /\ ev' = Quiet("initializeLocation", "lookup")
  /\ UNCHANGED <<activated, cfgVars, solar, store, intervalVars, statusShown,
                 previewVars, lastAppliedColors, updateErrorCount, calls,
                 previews, isUpdating, panelVariant, histVars,
                 locationInitialized, latitude, longitude, fn>>

(* await config.update('latitude', location.latitude, Global) settles; a   *)
(* rejection ends initializeLocation (nobody awaits its promise).          *)
LatitudeWritten(ok) ==
  /\ locRun.pc = "writeLat"
  /\ latitude' = IF ok THEN locRun.location.latitude ELSE latitude
  /\ locRun' = IF ok THEN [locRun EXCEPT !.pc = "writeLon"] ELSE NoRun
  /\ ev' = Quiet("initializeLocation", IF ok THEN "writeLat" ELSE "throw")
  /\ UNCHANGED <<activated, cfgVars, solar, store, intervalVars, statusShown,
                 previewVars, lastAppliedColors, updateErrorCount, calls,
                 previews, isUpdating, panelVariant, histVars,
                 locationInitialized, longitude, fn>>

(* await config.update('longitude', location.longitude, Global) settles *)
LongitudeWritten(ok) ==
  /\ locRun.pc = "writeLon"
  /\ longitude' = IF ok THEN locRun.location.longitude ELSE longitude
  /\ locRun' = IF ok THEN [locRun EXCEPT !.pc = "setFlag"] ELSE NoRun
  /\ ev' = Quiet("initializeLocation", IF ok THEN "writeLon" ELSE "throw")
  /\ UNCHANGED <<activated, cfgVars, solar, store, intervalVars, statusShown,
                 previewVars, lastAppliedColors, updateErrorCount, calls,
                 previews, isUpdating, panelVariant, histVars,
                 locationInitialized, latitude, fn>>

(* await globalState.update('solarTheme.locationInitialized', true) *)
FlagSaved(ok) ==
  /\ locRun.pc = "setFlag"
  /\ locationInitialized' = IF ok THEN TRUE ELSE locationInitialized
  /\ locRun' = NoRun
  /\ ev' = Quiet("initializeLocation", IF ok THEN "done" ELSE "throw")
  /\ UNCHANGED <<activated, cfgVars, solar, store, intervalVars, statusShown,
                 previewVars, lastAppliedColors, updateErrorCount, calls,
                 previews, isUpdating, panelVariant, histVars,
                 latitude, longitude, fn>>

(* The user edits solarTheme.latitude / solarTheme.longitude in Settings. *)
UserSetsLocation(lat, lon) ==
  /\ latitude' = lat
  /\ longitude' = lon
  /\ ev' = Quiet("user", "setLocation")
  /\ UNCHANGED <<activated, cfgVars, solar, store, intervalVars, statusShown,
                 previewVars, lastAppliedColors, updateErrorCount, calls,
                 previews, isUpdating, panelVariant, histVars,
                 locationInitialized, locRun, fn>>

(* The extension host restarts: deactivate(), and every module-level       *)
(* variable starts again from its initialiser; settings, the style store   *)
(* and globalState are kept, promises in flight are gone.                  *)
Reload ==
  /\ activated
  /\ activated' = FALSE
  /\ updateInterval' = FALSE
  /\ intervalTimers' = {}
  /\ statusShown' = FALSE
  /\ isPreviewing' = FALSE
  /\ previewTimeout' = FALSE
  /\ timers' = {}
  /\ lastAppliedColors' = EmptyString
  /\ updateErrorCount' = 0
  /\ calls' = EmptyBag
  /\ previews' = <<>>
  /\ isUpdating' = FALSE
  /\ locRun' = NoRun
  /\ failRun' = 0
  /\ runWarns' = 0
  /\ ev' = Quiet("reload", "none")
  /\ UNCHANGED <<cfgVars, solar, store, panelVariant, warnings, everApplied,
                 locationInitialized, latitude, longitude, fn>>

(* First run and later runs of the extension, with the user free to set a  *)
(* location at any moment.                                                 *)
NextLocation ==
  \/ \E dirty \in 0..MaxDirty : Activate(dirty)
  \/ \E resp \in Responses : LookupSettled(resp)
  \/ \E ok \in BOOLEAN : LatitudeWritten(ok)
  \/ \E ok \in BOOLEAN : LongitudeWritten(ok)
  \/ \E ok \in BOOLEAN : FlagSaved(ok)
  \/ \E lat \in UserLats, lon \in UserLons : UserSetsLocation(lat, lon)
  \/ Reload
InitLocation ==
  /\ Init /\ panelVariant = "command" /\ showNotifications = FALSE
  /\ updateIntervalSeconds = 5 /\ solar = "m1"
SpecLocation == InitLocation /\ [][NextLocation]_vars

LocationWrite ==
  ev'.op = "initializeLocation" /\ ev'.path \in {"writeLat", "writeLon"}

(* C21: initializeLocation writes a coordinate only while the flag is      *)
(* unset and the configured location is still the one it found when it     *)
(* started (the defaults, or the latitude this run has just written), so   *)
(* a location the user sets while the lookup is in flight is not           *)
(* overwritten; an activation with the flag set performs no lookup.        *)
C21_AutoDetectNeverOverwritesUser ==
  [][/\ LocationWrite /\ ev'.path = "writeLat"
        => /\ ~locationInitialized
           /\ IsDefaultLat(latitude) /\ IsDefaultLon(longitude)
     /\ LocationWrite /\ ev'.path = "writeLon"
        => /\ ~locationInitialized
           /\ latitude = locRun.location.latitude
           /\ IsDefaultLon(longitude)
     /\ locationInitialized /\ ~activated /\ activated'
        => locRun' = NoRun]_vars

(* C22: autoDetectLocation always resolves: to null on an error, a         *)
(* timeout, a non-JSON body and a body without coordinates, and to the     *)
(* location on a body that carries a latitude and a longitude.             *)
C22_LookupResolvesToLocationOrNull ==
  [][ev'.op = "initializeLocation" /\ ev'.path = "lookup"
     => LET resp == locRun'.resp
            location == locRun'.location
        IN  /\ location.settled = "resolved"
            /\ resp.kind # "json" => ~location.some
            /\ resp.kind = "json"
               /\ ~(resp.latitude.present /\ resp.longitude.present)
               => ~location.some
            /\ resp.kind = "json"
               /\ resp.latitude.present /\ resp.longitude.present
               => location = Location(resp.latitude.num,
                                      resp.longitude.num)]_vars

(* ---- JavaScript numbers ------------------------------------------------- *)
(* A JavaScript number is an IEEE 754 binary64 value.  Its significand     *)
(* does not fit a machine integer here, so naturals are kept as sequences  *)
(* of 15-bit limbs, least significant first, without high zero limbs.      *)
Base == 2^15
Pow2(n) == 2^n

RECURSIVE NNorm(_)
NNorm(a) ==
  IF a = <<>> THEN <<>>
  ELSE IF a[Len(a)] = 0 THEN NNorm(SubSeq(a, 1, Len(a) - 1)) ELSE a

RECURSIVE NFromInt(_)
NFromInt(n) == IF n = 0 THEN <<>> ELSE <<n % Base>> \o NFromInt(n \div Base)

Limb(a, i) == IF i <= Len(a) THEN a[i] ELSE 0
NMaxLen(a, b) == IF Len(a) >= Len(b) THEN Len(a) ELSE Len(b)

RECURSIVE NCmpFrom(_, _, _)
NCmpFrom(a, b, i) ==
  IF i = 0 THEN 0
  ELSE IF Limb(a, i) > Limb(b, i) THEN 1
  ELSE IF Limb(a, i) < Limb(b, i) THEN -1
  ELSE NCmpFrom(a, b, i - 1)
(* -1, 0 or 1 as a < b, a = b, a > b *)
NCmp(a, b) == NCmpFrom(a, b, NMaxLen(a, b))

RECURSIVE NAddFrom(_, _, _, _)
NAddFrom(a, b, i, carry) ==
  IF i > NMaxLen(a, b)
  THEN IF carry = 0 THEN <<>> ELSE <<carry>>
  ELSE LET t == Limb(a, i) + Limb(b, i) + carry
       IN  <<t % Base>> \o NAddFrom(a, b, i + 1, t \div Base)
NAdd(a, b) == NAddFrom(a, b, 1, 0)

RECURSIVE NSubFrom(_, _, _, _)
NSubFrom(a, b, i, borrow) ==
  IF i > Len(a) THEN <<>>
  ELSE LET t == Limb(a, i) - Limb(b, i) - borrow
       IN  <<t % Base>> \o NSubFrom(a, b, i + 1, IF t < 0 THEN 1 ELSE 0)
(* a - b for a >= b *)
NSub(a, b) == NNorm(NSubFrom(a, b, 1, 0))

RECURSIVE NMulLimb(_, _, _, _)
NMulLimb(a, k, i, carry) ==
  IF i > Len(a)
  THEN IF carry = 0 THEN <<>> ELSE <<carry>>
  ELSE LET t == a[i] * k + carry
       IN  <<t % Base>> \o NMulLimb(a, k, i + 1, t \div Base)
RECURSIVE NMulFrom(_, _, _)
NMulFrom(a, b, j) ==
  IF j > Len(b) THEN <<>>
  ELSE NAdd(NMulLimb(a, b[j], 1, 0),
            <<0>> \o NMulFrom(a, b, j + 1))
NMul(a, b) == NNorm(NMulFrom(a, b, 1))

RECURSIVE BitLenInt(_)
BitLenInt(n) == IF n = 0 THEN 0 ELSE 1 + BitLenInt(n \div 2)
(* the number of bits of a; 0 for zero *)
NBitLen(a) ==
  IF a = <<>> THEN 0 ELSE 15 * (Len(a) - 1) + BitLenInt(a[Len(a)])
(* bit i of a, bit 0 being the lowest *)
NBit(a, i) == (Limb(a, (i \div 15) + 1) \div Pow2(i % 15)) % 2

(* a * 2^n *)
NShl(a, n) ==
  IF a = <<>> THEN <<>>
  ELSE NMul([i \in 1..(n \div 15) |-> 0] \o a, <<Pow2(n % 15)>>)
(* floor(a / 2^n) *)
NShr(a, n) ==
  LET q == n \div 15
      r == n % 15
  IN  IF q >= Len(a) THEN <<>>
      ELSE NNorm([i \in 1..(Len(a) - q) |->
                    (a[i + q] \div Pow2(r))
                    + (Limb(a, i + q + 1) % Pow2(r)) * Pow2(15 - r)])
(* a mod 2^n = 0 *)
NLowZero(a, n) == NShl(NShr(a, n), n) = a
NOdd(a) == a # <<>> /\ a[1] % 2 = 1

(* Long division by limbs.  The divisor b is normalised (its top limb is   *)
(* 2^14 or more), so the quotient limb estimated from the two top limbs    *)
(* of the remainder is at most 2 too large; it is lowered until it fits.   *)
RECURSIVE FitLimb(_, _, _)
FitLimb(est, r, b) ==
  IF NCmp(NMulLimb(b, est, 1, 0), r) > 0 THEN FitLimb(est - 1, r, b) ELSE est
EstLimb(r, b) ==
  LET est == (Limb(r, Len(b) + 1) * Base + Limb(r, Len(b))) \div b[Len(b)]
  IN  IF est >= Base THEN Base - 1 ELSE est
TakeLimb(q, r, b, ql) ==
  [quot |-> <<ql>> \o q, rem |-> NSub(r, NMulLimb(b, ql, 1, 0))]
(* the next lower limb of the dividend is brought down to the remainder *)
PickLimb(q, r, b) == TakeLimb(q, r, b, FitLimb(EstLimb(r, b), r, b))
DivLimb(p, limb, b) ==
  IF p.rem = <<>> /\ limb = 0
  THEN [quot |-> <<0>> \o p.quot, rem |-> <<>>]
  ELSE PickLimb(p.quot, NNorm(<<limb>> \o p.rem), b)
RECURSIVE NDivTop(_, _, _)
(* the limbs of a from the top one down to limb j *)
NDivTop(a, b, j) ==
  IF j > Len(a) THEN [quot |-> <<>>, rem |-> <<>>]
  ELSE DivLimb(NDivTop(a, b, j + 1), a[j], b)
(* quotient and remainder (the latter times 2^s) of a by b > 0 *)
NDivNormalised(a, b, s) == NDivTop(NShl(a, s), NShl(b, s), 1)
NDivMod(a, b) ==
  LET d == NDivNormalised(a, b, 15 - BitLenInt(b[Len(b)]))
  IN  [quot |-> NNorm(d.quot), rem |-> d.rem]

(* A number: NaN, an infinity, or (-1)^neg * m * 2^e with m a natural of   *)
(* at most 53 bits that is odd or zero, so that equal numbers are equal    *)
(* records.  The exponent range is not modelled (all magnitudes here lie   *)
(* far inside it), and -0 is not told from 0.                              *)
Num(cls, neg, m, e) == [cls |-> cls, neg |-> neg, m |-> m, e |-> e]
NaN == Num("nan", FALSE, <<>>, 0)
Infinity(neg) == Num("inf", neg, <<>>, 0)
Zero == Num("num", FALSE, <<>>, 0)
IsFinite(x) == x.cls = "num"
IsZero(x) == x.cls = "num" /\ x.m = <<>>

RECURSIVE TrailingZerosInt(_)
TrailingZerosInt(n) == IF n % 2 = 1 THEN 0 ELSE 1 + TrailingZerosInt(n \div 2)
RECURSIVE NTrailingZeros(_, _)
NTrailingZeros(a, i) ==
  IF a[i] = 0 THEN 15 + NTrailingZeros(a, i + 1) ELSE TrailingZerosInt(a[i])
Canon(neg, m, e) ==
  IF NNorm(m) = <<>> THEN Zero
  ELSE LET tz == NTrailingZeros(m, 1)
       IN  Num("num", neg, NShr(m, tz), e + tz)

(* m * 2^e rounded to the nearest number of 53 significant bits, ties to   *)
(* the even significand                                                    *)
RoundNearestEven(neg, m, e) ==
  LET len == NBitLen(m)
      sh == len - 53
      q == NShr(m, sh)
      up == /\ NBit(m, sh - 1) = 1
            /\ (~NLowZero(m, sh - 1) \/ NOdd(q))
  IN  IF len <= 53 THEN Canon(neg, m, e)
      ELSE Canon(neg, IF up THEN NAdd(q, <<1>>) ELSE q, e + sh)

Abs(n) == IF n < 0 THEN -n ELSE n
(* an integer literal or integer result such as getHours() *)
FromInt(n) == Canon(n < 0, NFromInt(Abs(n)), 0)
Neg(x) == IF x.cls = "nan" \/ IsZero(x) THEN x ELSE [x EXCEPT !.neg = ~x.neg]

MinExp(x, y) == IF x.e <= y.e THEN x.e ELSE y.e
Aligned(x, y) == NShl(x.m, x.e - MinExp(x, y))
(* -1, 0, 1 as |x| < |y|, |x| = |y|, |x| > |y|, for finite x and y *)
CmpMag(x, y) == NCmp(Aligned(x, y), Aligned(y, x))

(* x + y *)
Add(x, y) ==
  IF x.cls = "nan" \/ y.cls = "nan" THEN NaN
  ELSE IF x.cls = "inf"
       THEN IF y.cls = "inf" /\ y.neg # x.neg THEN NaN ELSE x
  ELSE IF y.cls = "inf" THEN y
  ELSE IF x.neg = y.neg
       THEN RoundNearestEven(x.neg, NAdd(Aligned(x, y), Aligned(y, x)),
                             MinExp(x, y))
  ELSE IF CmpMag(x, y) >= 0
       THEN RoundNearestEven(x.neg, NSub(Aligned(x, y), Aligned(y, x)),
                             MinExp(x, y))
  ELSE RoundNearestEven(y.neg, NSub(Aligned(y, x), Aligned(x, y)),
                        MinExp(x, y))
(* x - y *)
Sub(x, y) == Add(x, Neg(y))

(* x * y *)
Mul(x, y) ==
  IF x.cls = "nan" \/ y.cls = "nan" THEN NaN
  ELSE IF x.cls = "inf" \/ y.cls = "inf"
       THEN IF IsZero(x) \/ IsZero(y) THEN NaN
            ELSE Infinity(x.neg # y.neg)
  ELSE RoundNearestEven(x.neg # y.neg, NMul(x.m, y.m), x.e + y.e)

(* x / y: the quotient is carried to 56 bits or more, and a remainder is   *)
(* kept as one more low bit, before the rounding                           *)
Div(x, y) ==
  IF x.cls = "nan" \/ y.cls = "nan" THEN NaN
  ELSE IF x.cls = "inf"
       THEN IF y.cls = "inf" THEN NaN ELSE Infinity(x.neg # y.neg)
  ELSE IF y.cls = "inf" THEN Zero
  ELSE IF IsZero(y)
       THEN IF IsZero(x) THEN NaN ELSE Infinity(x.neg # y.neg)
  ELSE IF IsZero(x) THEN Zero
  ELSE LET k0 == 56 + NBitLen(y.m) - NBitLen(x.m)
           k == IF k0 < 0 THEN 0 ELSE k0
           d == NDivMod(NShl(x.m, k), y.m)
           sticky == IF d.rem = <<>> THEN <<>> ELSE <<1>>
       IN  RoundNearestEven(x.neg # y.neg,
                            NAdd(NAdd(d.quot, d.quot), sticky),
                            x.e - y.e - k - 1)

(* x < y; false when either is NaN *)
Lt(x, y) ==
  IF x.cls = "nan" \/ y.cls = "nan" THEN FALSE
  ELSE IF x = y THEN FALSE
  ELSE IF x.cls = "inf" THEN x.neg
  ELSE IF y.cls = "inf" THEN ~y.neg
  ELSE IF IsZero(x) THEN ~y.neg
  ELSE IF IsZero(y) THEN x.neg
  ELSE IF x.neg # y.neg THEN x.neg
  ELSE IF x.neg THEN CmpMag(x, y) > 0 ELSE CmpMag(x, y) < 0
(* x <= y, x >= y *)
Le(x, y) == Lt(x, y) \/ (x.cls # "nan" /\ x = y)
Ge(x, y) == Le(y, x)

(* ---- getSolarTime ------------------------------------------------------- *)
(* A Date as the function reads it: its local hours and minutes; an        *)
(* Invalid Date (no sunrise or sunset on that day) reads as NaN.           *)
Date(h, mi) == [valid |-> TRUE, h |-> h, mi |-> mi]
InvalidDate == [valid |-> FALSE, h |-> 0, mi |-> 0]
GetHours(d) == IF d.valid THEN FromInt(d.h) ELSE NaN
GetMinutes(d) == IF d.valid THEN FromInt(d.mi) ELSE NaN
(* d.getHours() + d.getMinutes() / 60 *)
HourOf(d) == Add(GetHours(d), Div(GetMinutes(d), FromInt(60)))
(* a decimal literal such as 6.5, written 65 / 10 *)
Decimal(n, d) == Div(FromInt(n), FromInt(d))

DaySpan_Twelve == FromInt(12)
(* (18 - 6.5) *)
DaySpan == Sub(FromInt(18), Decimal(65, 10))
(* Daytime: 6.5 + dayProgress * (18 - 6.5) *)
Daytime(currentHour, sunriseHour, sunsetHour) ==
  Add(Decimal(65, 10),
      Mul(Div(Sub(currentHour, sunriseHour), Sub(sunsetHour, sunriseHour)),
          DaySpan))
BeforeSunrise_ToSix(currentHour, sunriseHour) ==
  Mul(Div(currentHour, sunriseHour), FromInt(6))
(* Before sunrise: nightProgress * 6.5 *)
BeforeSunrise(currentHour, sunriseHour) ==
  Mul(Div(currentHour, sunriseHour), Decimal(65, 10))
(* After sunset: 18 + nightProgress * 6 *)
AfterSunset(currentHour, sunsetHour) ==
  Add(FromInt(18),
      Mul(Div(Sub(currentHour, sunsetHour), Sub(FromInt(24), sunsetHour)),
          FromInt(6)))
SolarTimeOf(currentHour, sunriseHour, sunsetHour) ==
  IF Ge(currentHour, sunriseHour) /\ Le(currentHour, sunsetHour)
  THEN Daytime(currentHour, sunriseHour, sunsetHour)
  ELSE IF Lt(currentHour, sunriseHour)
       THEN BeforeSunrise(currentHour, sunriseHour)
       ELSE AfterSunset(currentHour, sunsetHour)
(* getSolarTime with now = new Date() and times = SunCalc.getTimes(...) *)
GetSolarTime(now, sunrise, sunset) ==
  SolarTimeOf(HourOf(now), HourOf(sunrise), HourOf(sunset))

(* The inputs: a time of day in whole minutes, and the sunrise / sunset    *)
(* pairs of an ordinary day (06:30 / 18:00, 07:11 / 20:07), a day with     *)
(* sunrise at 00:00, a day whose sunrise and sunset fall in one minute,    *)
(* a location whose sunset comes earlier on the local clock than its       *)
(* sunrise, and a day without sunrise and sunset.                          *)
NowStep == 15
AtMinute(m) == Date(m \div 60, m % 60)
MinuteOf(d) == 60 * d.h + d.mi
StandardDay == <<AtMinute(390), AtMinute(1080)>>
SunPairs ==
  {StandardDay,
   <<AtMinute(431), AtMinute(1207)>>,
   <<AtMinute(0), AtMinute(1080)>>,
   <<AtMinute(720), AtMinute(720)>>,
   <<AtMinute(1080), AtMinute(390)>>,
   <<InvalidDate, InvalidDate>>}
NowMinutes(pair) ==
  IF pair = StandardDay THEN 0..1439
  ELSE {m \in 0..1439 : m % NowStep = 0}
       \cup {MinuteOf(pair[1]), MinuteOf(pair[2])}
SolarInput(now, pair) ==
  [name |-> "input", now |-> now, sunrise |-> pair[1], sunset |-> pair[2]]
SolarInputs ==
  UNION {{SolarInput(AtMinute(m), pair) : m \in NowMinutes(pair)} :
           pair \in SunPairs}

ApplyGetSolarTime ==
  /\ fn.name = "input"
  /\ fn' = [name |-> "getSolarTime", now |-> fn.now, sunrise |-> fn.sunrise,
            sunset |-> fn.sunset,
            result |-> GetSolarTime(fn.now, fn.sunrise, fn.sunset)]
  /\ UNCHANGED <<activated, cfgVars, solar, store, intervalVars, statusShown,
                 previewVars, lastAppliedColors, updateErrorCount, calls,
                 previews, isUpdating, panelVariant, ev, histVars, locVars>>

QuietInit ==
  /\ ProgramInit /\ panelVariant = "command" /\ enabled = TRUE
  /\ showNotifications = FALSE /\ updateIntervalSeconds = 5 /\ solar = "m1"
NextSolarTime == ApplyGetSolarTime
InitSolarTime == QuietInit /\ fn \in SolarInputs
SpecSolarTime == InitSolarTime /\ [][NextSolarTime]_vars

SolarTimeApplied == fn.name = "getSolarTime"
ValidPair == fn.sunrise.valid /\ fn.sunset.valid
InRange(x) == IsFinite(x) /\ Ge(x, Zero) /\ Lt(x, FromInt(24))

(* C23: for every time of day and every sunrise / sunset pair, the solar   *)
(* time returned by getSolarTime is a number in [0,24).                    *)
C23_SolarTimeInRange == SolarTimeApplied => InRange(fn.result)

SunriseHour == HourOf(fn.sunrise)
SunsetHour == HourOf(fn.sunset)
(* the branch formulas agree at now = sunrise and at now = sunset *)
BranchesAgree(sunriseHour, sunsetHour) ==
  /\ BeforeSunrise(sunriseHour, sunriseHour) = Decimal(65, 10)
  /\ Daytime(sunriseHour, sunriseHour, sunsetHour) = Decimal(65, 10)
  /\ Daytime(sunsetHour, sunriseHour, sunsetHour) = FromInt(18)
  /\ AfterSunset(sunsetHour, sunsetHour) = FromInt(18)
OrdinaryDay ==
  /\ ValidPair
  /\ 0 < MinuteOf(fn.sunrise)
  /\ MinuteOf(fn.sunrise) < MinuteOf(fn.sunset)

(* C24 as stated: for every sunrise / sunset pair getSolarTime can         *)
(* receive, the pre-sunrise and daytime formulas both give 6.5 at          *)
(* now = sunrise, and the daytime and post-sunset formulas both give 18    *)
(* at now = sunset.                                                        *)
C24_ContinuousForEveryPair ==
  SolarTimeApplied => BranchesAgree(SunriseHour, SunsetHour)
(* C24: the same for every pair with 00:00 < sunrise < sunset, where       *)
(* getSolarTime itself returns 6.5 at now = sunrise and 18 at now = sunset *)
C24_ContinuousOnOrdinaryDays ==
  SolarTimeApplied /\ OrdinaryDay
  => /\ BranchesAgree(SunriseHour, SunsetHour)
     /\ fn.now = fn.sunrise => fn.result = Decimal(65, 10)
     /\ fn.now = fn.sunset => fn.result = FromInt(18)
C24_Witness ==
  /\ SolarTimeApplied /\ OrdinaryDay
  /\ <<fn.sunrise, fn.sunset>> # StandardDay
  /\ fn.now = fn.sunset
  /\ fn.result = FromInt(18)

ZeroLengthInterval ==
  ValidPair /\ (MinuteOf(fn.sunrise) = 0 \/ fn.sunrise = fn.sunset)
(* C25: with sunrise at 00:00, or sunset equal to sunrise, getSolarTime    *)
(* returns a finite number (never NaN or an infinity), and at a moment     *)
(* inside the collapsed day (now = sunrise = sunset) it returns 6.5, the   *)
(* start of the daytime range.                                             *)
C25_ZeroLengthIntervalGuarded ==
  SolarTimeApplied /\ ZeroLengthInterval
  => /\ IsFinite(fn.result)
     /\ fn.now = fn.sunrise /\ fn.now = fn.sunset
        => fn.result = Decimal(65, 10)

IdentityCase ==
  /\ SolarTimeApplied
  /\ <<fn.sunrise, fn.sunset>> = StandardDay
  /\ MinuteOf(fn.now) \in 390..1080
AbsNum(x) == IF x.cls = "num" THEN [x EXCEPT !.neg = FALSE] ELSE x
(* one unit in the last place of a number between 8 and 16: 2^-49 *)
UnitInLastPlace == Num("num", FALSE, <<1>>, -49)
(* C26 as stated: with sunrise 06:30 and sunset 18:00 getSolarTime returns *)
(* exactly the current hour for every time from 06:30 to 18:00.            *)
C26_DaytimeRemapIsIdentity == IdentityCase => fn.result = HourOf(fn.now)
(* C26: with sunrise 06:30 and sunset 18:00 getSolarTime returns the       *)
(* current hour to within one unit in the last place (2^-49 h) for every   *)
(* time from 06:30 to 18:00.                                               *)
C26_DaytimeRemapWithinRounding ==
  IdentityCase
  => Le(AbsNum(Sub(fn.result, HourOf(fn.now))), UnitInLastPlace)
C26_Witness ==
  /\ IdentityCase
  /\ fn.now = Date(12, 16)
  /\ fn.result # HourOf(fn.now)
  /\ AbsNum(Sub(fn.result, HourOf(fn.now))) = UnitInLastPlace

(* ---- palettes ----------------------------------------------------------- *)
ACCENT_COLOR == "#525866"
ACCENT_FOREGROUND == "#e4e4e7"
EDITOR_FG == "#d0d5dd"
SIDEBAR_FG == "#b8c0c8"

PALETTES ==
  [night |->
     [editorBackground |-> "#1a1d24",
      editorForeground |-> EDITOR_FG,
      sidebarBackground |-> "#14171d",
      sidebarForeground |-> SIDEBAR_FG,
      activityBarBackground |-> "#0f1115",
      statusBarBackground |-> "#0f1115",
      titleBarBackground |-> "#0f1115",
      tabBackground |-> "#14171d",
      tabActiveBackground |-> "#1a1d24",
      accentColor |-> "#4a5568",
      accentForeground |-> ACCENT_FOREGROUND,
      terminalBackground |-> "#171a20",
      borderColor |-> "#2d3748"],
   preDawn |->
     [editorBackground |-> "#1c1a24",
      editorForeground |-> EDITOR_FG,
      sidebarBackground |-> "#16141d",
      sidebarForeground |-> SIDEBAR_FG,
      activityBarBackground |-> "#111015",
      statusBarBackground |-> "#111015",
      titleBarBackground |-> "#111015",
      tabBackground |-> "#16141d",
      tabActiveBackground |-> "#1c1a24",
      accentColor |-> "#5a5170",
      accentForeground |-> ACCENT_FOREGROUND,
      terminalBackground |-> "#191720",
      borderColor |-> "#332d45"],
   dawn |->
     [editorBackground |-> "#211e1a",
      editorForeground |-> EDITOR_FG,
      sidebarBackground |-> "#1a1814",
      sidebarForeground |-> SIDEBAR_FG,
      activityBarBackground |-> "#14120f",
      statusBarBackground |-> "#14120f",
      titleBarBackground |-> "#14120f",
      tabBackground |-> "#1a1814",
      tabActiveBackground |-> "#211e1a",
      accentColor |-> "#8b7355",
      accentForeground |-> ACCENT_FOREGROUND,
      terminalBackground |-> "#1e1b17",
      borderColor |-> "#3d3530"],
   sunrise |->
     [editorBackground |-> "#232019",
      editorForeground |-> EDITOR_FG,
      sidebarBackground |-> "#1c1a14",
      sidebarForeground |-> SIDEBAR_FG,
      activityBarBackground |-> "#16140f",
      statusBarBackground |-> "#16140f",
      titleBarBackground |-> "#16140f",
      tabBackground |-> "#1c1a14",
      tabActiveBackground |-> "#232019",
      accentColor |-> "#9a8560",
      accentForeground |-> ACCENT_FOREGROUND,
      terminalBackground |-> "#201d16",
      borderColor |-> "#45402f"],
   morning |->
     [editorBackground |-> "#201f1c",
      editorForeground |-> EDITOR_FG,
      sidebarBackground |-> "#1a1917",
      sidebarForeground |-> SIDEBAR_FG,
      activityBarBackground |-> "#141311",
      statusBarBackground |-> "#141311",
      titleBarBackground |-> "#141311",
      tabBackground |-> "#1a1917",
      tabActiveBackground |-> "#201f1c",
      accentColor |-> "#6b6560",
      accentForeground |-> ACCENT_FOREGROUND,
      terminalBackground |-> "#1d1c19",
      borderColor |-> "#383530"],
   midday |->
     [editorBackground |-> "#1e1e1e",
      editorForeground |-> EDITOR_FG,
      sidebarBackground |-> "#181818",
      sidebarForeground |-> SIDEBAR_FG,
      activityBarBackground |-> "#121212",
      statusBarBackground |-> "#121212",
      titleBarBackground |-> "#121212",
      tabBackground |-> "#181818",
      tabActiveBackground |-> "#1e1e1e",
      accentColor |-> "#606060",
      accentForeground |-> ACCENT_FOREGROUND,
      terminalBackground |-> "#1b1b1b",
      borderColor |-> "#333333"],
   afternoon |->
     [editorBackground |-> "#1b1d20",
      editorForeground |-> EDITOR_FG,
      sidebarBackground |-> "#15171a",
      sidebarForeground |-> SIDEBAR_FG,
      activityBarBackground |-> "#101214",
      statusBarBackground |-> "#101214",
      titleBarBackground |-> "#101214",
      tabBackground |-> "#15171a",
      tabActiveBackground |-> "#1b1d20",
      accentColor |-> "#556070",
      accentForeground |-> ACCENT_FOREGROUND,
      terminalBackground |-> "#181a1d",
      borderColor |-> "#2a3040"],
   goldenHour |->
     [editorBackground |-> "#241f18",
      editorForeground |-> EDITOR_FG,
      sidebarBackground |-> "#1d1913",
      sidebarForeground |-> SIDEBAR_FG,
      activityBarBackground |-> "#17140e",
      statusBarBackground |-> "#17140e",
      titleBarBackground |-> "#17140e",
      tabBackground |-> "#1d1913",
      tabActiveBackground |-> "#241f18",
      accentColor |-> "#a08050",
      accentForeground |-> ACCENT_FOREGROUND,
      terminalBackground |-> "#211c15",
      borderColor |-> "#4a4030"],
   sunset |->
     [editorBackground |-> "#221a1e",
      editorForeground |-> EDITOR_FG,
      sidebarBackground |-> "#1b1418",
      sidebarForeground |-> SIDEBAR_FG,
      activityBarBackground |-> "#150f12",
      statusBarBackground |-> "#150f12",
      titleBarBackground |-> "#150f12",
      tabBackground |-> "#1b1418",
      tabActiveBackground |-> "#221a1e",
      accentColor |-> "#8a6070",
      accentForeground |-> ACCENT_FOREGROUND,
      terminalBackground |-> "#1f171b",
      borderColor |-> "#402a35"],
   dusk |->
     [editorBackground |-> "#1e1a24",
      editorForeground |-> EDITOR_FG,
      sidebarBackground |-> "#17141d",
      sidebarForeground |-> SIDEBAR_FG,
      activityBarBackground |-> "#120f16",
      statusBarBackground |-> "#120f16",
      titleBarBackground |-> "#120f16",
      tabBackground |-> "#17141d",
      tabActiveBackground |-> "#1e1a24",
      accentColor |-> "#705880",
      accentForeground |-> ACCENT_FOREGROUND,
      terminalBackground |-> "#1b1720",
      borderColor |-> "#352845"]]

(* Time phases throughout the day (in hours from midnight); TIME_PHASES[0] *)
(* of the source is TIME_PHASES[1] here.                                   *)
Phase(time, palette) == [time |-> time, palette |-> palette]
TIME_PHASES_Unclosed ==
  <<Phase(FromInt(0), "night"), Phase(FromInt(4), "night"),
    Phase(FromInt(5), "preDawn"), Phase(FromInt(6), "dawn"),
    Phase(Decimal(65, 10), "sunrise"), Phase(FromInt(8), "morning"),
    Phase(FromInt(11), "midday"), Phase(FromInt(13), "midday"),
    Phase(FromInt(15), "afternoon"), Phase(FromInt(17), "goldenHour"),
    Phase(FromInt(18), "sunset"), Phase(FromInt(19), "dusk"),
    Phase(FromInt(20), "night"), Phase(FromInt(24), "dusk")>>
TIME_PHASES_NoFlat ==
  <<Phase(FromInt(0), "night"), Phase(FromInt(4), "night"),
    Phase(FromInt(5), "preDawn"), Phase(FromInt(6), "dawn"),
    Phase(Decimal(65, 10), "sunrise"), Phase(FromInt(8), "morning"),
    Phase(FromInt(11), "midday"), Phase(FromInt(13), "afternoon"),
    Phase(FromInt(15), "afternoon"), Phase(FromInt(17), "goldenHour"),
    Phase(FromInt(18), "sunset"), Phase(FromInt(19), "dusk"),
    Phase(FromInt(20), "night"), Phase(FromInt(24), "night")>>
TIME_PHASES ==
  <<Phase(FromInt(0), "night"), Phase(FromInt(4), "night"),
    Phase(FromInt(5), "preDawn"), Phase(FromInt(6), "dawn"),
    Phase(Decimal(65, 10), "sunrise"), Phase(FromInt(8), "morning"),
    Phase(FromInt(11), "midday"), Phase(FromInt(13), "midday"),
    Phase(FromInt(15), "afternoon"), Phase(FromInt(17), "goldenHour"),
    Phase(FromInt(18), "sunset"), Phase(FromInt(19), "dusk"),
    Phase(FromInt(20), "night"), Phase(FromInt(24), "night")>>

(* ---- colour functions --------------------------------------------------- *)
LowerDigits == "0123456789abcdef"
UpperDigits == "0123456789ABCDEF"
CharAt(str, i) == SubSeq(str, i, i)
(* [a-f\d] under the i flag *)
IsHexDigit(ch) ==
  \E v \in 1..16 : CharAt(LowerDigits, v) = ch \/ CharAt(UpperDigits, v) = ch
DigitValue(ch) ==
  (CHOOSE v \in 1..16 :
     CharAt(LowerDigits, v) = ch \/ CharAt(UpperDigits, v) = ch) - 1
ParseInt16_LowFirst(pair) ==
  16 * DigitValue(CharAt(pair, 2)) + DigitValue(CharAt(pair, 1))
(* parseInt(pair, 16) of two hex digits *)
ParseInt16(pair) ==
  16 * DigitValue(CharAt(pair, 1)) + DigitValue(CharAt(pair, 2))
(* hex without the optional leading '#' of the pattern *)
HexBody(hex) == IF Len(hex) > 0 /\ Head(hex) = "#" THEN Tail(hex) ELSE hex
(* /^#?([a-f\d]{2})([a-f\d]{2})([a-f\d]{2})$/i matches hex *)
HexMatches(hex) ==
  /\ Len(HexBody(hex)) = 6
  /\ \A i \in 1..6 : IsHexDigit(CharAt(HexBody(hex), i))
Rgb(r, g, b) == [r |-> r, g |-> g, b |-> b]
(* hexToRgb *)
HexToRgb(hex) ==
  IF ~HexMatches(hex) THEN Rgb(0, 0, 0)
  ELSE Rgb(ParseInt16(SubSeq(HexBody(hex), 1, 2)),
           ParseInt16(SubSeq(HexBody(hex), 3, 4)),
           ParseInt16(SubSeq(HexBody(hex), 5, 6)))

(* Math.max(0, Math.min(255, n)) *)
Clamp(n) ==
  IF n.cls = "nan" THEN NaN
  ELSE IF Lt(FromInt(255), n) THEN FromInt(255)
  ELSE IF Lt(n, Zero) THEN Zero
  ELSE n
(* Math.round of a number from 0 to 255, as an integer: floor(n + 1/2) *)
MathRound(n) ==
  LET whole == IF n.e >= 0 THEN NShl(n.m, n.e)
               ELSE NShr(NAdd(n.m, NShl(<<1>>, (-n.e) - 1)), -n.e)
  IN  IF whole = <<>> THEN 0 ELSE whole[1]
(* an integer from 0 to 255 .toString(16) *)
ToString16(k) ==
  IF k < 16 THEN CharAt(LowerDigits, k + 1)
  ELSE CharAt(LowerDigits, (k \div 16) + 1)
       \o CharAt(LowerDigits, (k % 16) + 1)
Pad2_None(hex) == hex
(* hex.length === 1 ? '0' + hex : hex *)
Pad2(hex) == IF Len(hex) = 1 THEN "0" \o hex ELSE hex
(* toHex of rgbToHex *)
ToHex(n) ==
  Pad2(IF Clamp(n).cls = "nan" THEN "NaN"
       ELSE ToString16(MathRound(Clamp(n))))
(* rgbToHex *)
RgbToHex(r, g, b) == "#" \o ToHex(r) \o ToHex(g) \o ToHex(b)

LerpChannel_DeltaOnly(c1, c2, t) ==
  Mul(Sub(FromInt(c2), FromInt(c1)), t)
LerpChannel_FromEnd(c1, c2, t) ==
  Add(FromInt(c2), Mul(Sub(FromInt(c1), FromInt(c2)), t))
(* c1 + (c2 - c1) * t for one channel *)
LerpChannel(c1, c2, t) ==
  Add(FromInt(c1), Mul(Sub(FromInt(c2), FromInt(c1)), t))
LerpRgb(c1, c2, t) ==
  RgbToHex(LerpChannel(c1.r, c2.r, t), LerpChannel(c1.g, c2.g, t),
           LerpChannel(c1.b, c2.b, t))
(* lerpColor *)
LerpColor(color1, color2, t) == LerpRgb(HexToRgb(color1), HexToRgb(color2), t)
(* lerpPalette: one slot for every key of palette1 *)
LerpPalette(palette1, palette2, t) ==
  [key \in DOMAIN palette1 |-> LerpColor(palette1[key], palette2[key], t)]

(* The upper comparison made inclusive. *)
Brackets_Closed(i, solarTime) ==
  /\ Ge(solarTime, TIME_PHASES[i].time)
  /\ Le(solarTime, TIME_PHASES[i + 1].time)
(* ---- getCurrentPalette ---------------------------------------------------- *)
Brackets(i, solarTime) ==
  /\ Ge(solarTime, TIME_PHASES[i].time)
  /\ Lt(solarTime, TIME_PHASES[i + 1].time)
(* the index of prevPhase after the loop: the first pair that brackets     *)
(* solarTime, and the initial value TIME_PHASES[0] when the loop finds     *)
(* none                                                                    *)
PrevPhaseIndex(solarTime) ==
  IF \E i \in 1..(Len(TIME_PHASES) - 1) : Brackets(i, solarTime)
  THEN CHOOSE i \in 1..(Len(TIME_PHASES) - 1) :
         /\ Brackets(i, solarTime)
         /\ \A j \in 1..(i - 1) : ~Brackets(j, solarTime)
  ELSE 1
(* the interpolation factor t *)
Factor(solarTime, prevPhase, nextPhase) ==
  Div(Sub(solarTime, prevPhase.time), Sub(nextPhase.time, prevPhase.time))
PaletteBetween(solarTime, prevPhase, nextPhase) ==
  LerpPalette(PALETTES[prevPhase.palette], PALETTES[nextPhase.palette],
              Factor(solarTime, prevPhase, nextPhase))
(* getCurrentPalette, given the value of getSolarTime(config) *)
GetCurrentPalette(solarTime) ==
  PaletteBetween(solarTime, TIME_PHASES[PrevPhaseIndex(solarTime)],
                 TIME_PHASES[PrevPhaseIndex(solarTime) + 1])

(* The solar times tried: every SolarStep-th minute of the day, the end of *)
(* the day (24), the last double before a breakpoint, and NaN.             *)
SolarStep == 5
(* the doubles next below the breakpoints 4, 6.5 and 24 *)
JustBelow ==
  {Sub(FromInt(4), Num("num", FALSE, <<1>>, -51)),
   Sub(Decimal(65, 10), Num("num", FALSE, <<1>>, -50)),
   Sub(FromInt(24), Num("num", FALSE, <<1>>, -48))}
SolarTimes ==
  {Decimal(m, 60) : m \in {k \in 0..1440 : k % SolarStep = 0}}
  \cup JustBelow \cup {NaN}
PaletteInputs == {[name |-> "solarTime", solarTime |-> st] : st \in SolarTimes}

ApplyGetCurrentPalette ==
  /\ fn.name = "solarTime"
  /\ fn' = [name |-> "getCurrentPalette", solarTime |-> fn.solarTime,
            prevPhase |-> PrevPhaseIndex(fn.solarTime),
            nextPhase |-> PrevPhaseIndex(fn.solarTime) + 1,
            result |-> GetCurrentPalette(fn.solarTime)]
  /\ UNCHANGED <<activated, cfgVars, solar, store, intervalVars, statusShown,
                 previewVars, lastAppliedColors, updateErrorCount, calls,
                 previews, isUpdating, panelVariant, ev, histVars, locVars>>

NextPalette == ApplyGetCurrentPalette
InitPalette == QuietInit /\ fn \in PaletteInputs
SpecPalette == InitPalette /\ [][NextPalette]_vars

PaletteApplied == fn.name = "getCurrentPalette"
NoPairBrackets ==
  \A i \in 1..(Len(TIME_PHASES) - 1) : ~Brackets(i, fn.solarTime)

(* C27: when no adjacent pair of TIME_PHASES brackets the solar time (as   *)
(* for solarTime = 24), getCurrentPalette interpolates between the last    *)
(* pair of the timeline.                                                   *)
C27_FallbackIsLastPair ==
  PaletteApplied /\ NoPairBrackets
  => /\ fn.prevPhase = Len(TIME_PHASES) - 1
     /\ fn.nextPhase = Len(TIME_PHASES)

PaletteKeys == DOMAIN PALETTES.night
(* '#' followed by six hex digits *)
IsHexColor(str) ==
  /\ Len(str) = 7
  /\ Head(str) = "#"
  /\ \A i \in 2..7 : IsHexDigit(CharAt(str, i))

(* C28: for every solar time in [0,24) the palette returned by             *)
(* getCurrentPalette has exactly the 13 slots of a table palette, each     *)
(* slot a 6-hex-digit colour.                                              *)
C28_PaletteHasEverySlot ==
  PaletteApplied /\ InRange(fn.solarTime)
  => /\ DOMAIN fn.result = PaletteKeys
     /\ Cardinality(PaletteKeys) = 13
     /\ \A key \in PaletteKeys : IsHexColor(fn.result[key])
C28_Witness ==
  /\ PaletteApplied /\ InRange(fn.solarTime)
  /\ Lt(FromInt(6), fn.solarTime) /\ Lt(fn.solarTime, Decimal(65, 10))
  /\ fn.result # PALETTES.dawn /\ fn.result # PALETTES.sunrise
  /\ \A key \in PaletteKeys : IsHexColor(fn.result[key])

(* C29: every solar time from 11 to 13, 12 among them, resolves to a       *)
(* palette whose every slot equals the midday table palette.               *)
C29_FlatSegmentIsMidday ==
  PaletteApplied /\ Ge(fn.solarTime, FromInt(11))
                 /\ Le(fn.solarTime, FromInt(13))
  => fn.result = PALETTES.midday
C29_Witness ==
  /\ PaletteApplied
  /\ fn.solarTime = FromInt(12)
  /\ fn.result = PALETTES.midday

(* ---- lerpColor on its own ----------------------------------------------- *)
(* Colours in the table's form ('#' and six lowercase digits), with        *)
(* uppercase digits, and without the '#'; and factors from 0 to 1.         *)
Colors ==
  {"#000000", "#ffffff", "#1a1d24", "#d0d5dd", "#4a5568",
   "#FFFFFF", "#C4A000", "1a1d24"}
Factors ==
  {FromInt(0), FromInt(1), Decimal(1, 2), Decimal(1, 3), Decimal(7, 10)}
LerpInputs ==
  {[name |-> "colors", color1 |-> a, color2 |-> b, t |-> t] :
     a \in Colors, b \in Colors, t \in Factors}

ApplyLerpColor ==
  /\ fn.name = "colors"
  /\ fn' = [name |-> "lerpColor", color1 |-> fn.color1,
            color2 |-> fn.color2, t |-> fn.t,
            result |-> LerpColor(fn.color1, fn.color2, fn.t)]
  /\ UNCHANGED <<activated, cfgVars, solar, store, intervalVars, statusShown,
                 previewVars, lastAppliedColors, updateErrorCount, calls,
                 previews, isUpdating, panelVariant, ev, histVars, locVars>>

NextLerp == ApplyLerpColor
InitLerp == QuietInit /\ fn \in LerpInputs
SpecLerp == InitLerp /\ [][NextLerp]_vars

LerpApplied == fn.name = "lerpColor"
(* '#' followed by six lowercase hex digits, as rgbToHex writes a colour *)
IsLowerHexColor(str) ==
  /\ IsHexColor(str)
  /\ \A i \in 2..7 : \E v \in 1..16 : CharAt(LowerDigits, v) = CharAt(str, i)

(* 0 <= t <= 1 *)
InRangeFactor(t) == Le(Zero, t) /\ Le(t, FromInt(1))
(* C30 as stated: lerpColor(A, B, 0) is A and lerpColor(A, B, 1) is B,     *)
(* as strings, for all 6-hex-digit colours A and B.                        *)
C30_EndpointsExact ==
  LerpApplied /\ HexMatches(fn.color1) /\ HexMatches(fn.color2)
  => /\ fn.t = FromInt(0) => fn.result = fn.color1
     /\ fn.t = FromInt(1) => fn.result = fn.color2
(* C30: lerpColor(A, B, 0) is A and lerpColor(A, B, 1) is B exactly when   *)
(* that endpoint is written as '#' and six lowercase digits; for any       *)
(* 6-hex-digit endpoint the result is the same colour, rewritten in that   *)
(* form.                                                                   *)
C30_EndpointsExactInLowerCase ==
  LerpApplied /\ HexMatches(fn.color1) /\ HexMatches(fn.color2)
  => /\ fn.t = FromInt(0)
        => /\ HexToRgb(fn.result) = HexToRgb(fn.color1)
           /\ IsLowerHexColor(fn.result)
           /\ IsLowerHexColor(fn.color1) => fn.result = fn.color1
     /\ fn.t = FromInt(1)
        => /\ HexToRgb(fn.result) = HexToRgb(fn.color2)
           /\ IsLowerHexColor(fn.result)
           /\ IsLowerHexColor(fn.color2) => fn.result = fn.color2
C30_Witness ==
  /\ LerpApplied
  /\ IsLowerHexColor(fn.color1) /\ IsLowerHexColor(fn.color2)
  /\ fn.color1 # fn.color2
  /\ fn.t = FromInt(1)
  /\ fn.result = fn.color2

(* ---- lerpColor with identical endpoints --------------------------------- *)
SameEndpoints ==
  LerpApplied /\ HexMatches(fn.color1) /\ fn.color1 = fn.color2

(* C31 as stated: lerpColor(A, A, t) is A, as a string, for every colour A *)
(* and every t from 0 to 1.                                                *)
C31_SameEndpointsExact ==
  SameEndpoints /\ InRangeFactor(fn.t) => fn.result = fn.color1
(* C31: lerpColor(A, A, t) for t from 0 to 1 is the colour A written as    *)
(* '#' and six lowercase digits; it is the string A exactly when A is      *)
(* written in that form.                                                   *)
C31_SameEndpointsExactInLowerCase ==
  SameEndpoints /\ InRangeFactor(fn.t)
  => /\ HexToRgb(fn.result) = HexToRgb(fn.color1)
     /\ IsLowerHexColor(fn.result)
     /\ IsLowerHexColor(fn.color1) => fn.result = fn.color1
C31_Witness ==
  /\ SameEndpoints
  /\ fn.color1 = "#1a1d24"
  /\ fn.t = Decimal(1, 3)
  /\ fn.result = "#1a1d24"

(* ---- hexToRgb after rgbToHex -------------------------------------------- *)
(* Every channel value from 0 to 255 in each position, next to channel     *)
(* values at the one-digit / two-digit and digit / letter boundaries.      *)
Channels == 0..255
EdgeChannels == {0, 9, 10, 15, 16, 255}
RgbInputs ==
  {[name |-> "rgb", r |-> r, g |-> g, b |-> b] :
     r \in Channels, g \in EdgeChannels, b \in EdgeChannels}
  \cup {[name |-> "rgb", r |-> r, g |-> g, b |-> b] :
          r \in EdgeChannels, g \in Channels, b \in EdgeChannels}
  \cup {[name |-> "rgb", r |-> r, g |-> g, b |-> b] :
          r \in EdgeChannels, g \in EdgeChannels, b \in Channels}

(* hexToRgb(rgbToHex(r, g, b)) *)
ApplyHexToRgb ==
  /\ fn.name = "rgb"
  /\ LET hex == RgbToHex(FromInt(fn.r), FromInt(fn.g), FromInt(fn.b))
     IN  fn' = [name |-> "hexToRgb", r |-> fn.r, g |-> fn.g, b |-> fn.b,
                hex |-> hex, result |-> HexToRgb(hex)]
  /\ UNCHANGED <<activated, cfgVars, solar, store, intervalVars, statusShown,
                 previewVars, lastAppliedColors, updateErrorCount, calls,
                 previews, isUpdating, panelVariant, ev, histVars, locVars>>

NextRoundTrip == ApplyHexToRgb
InitRoundTrip == QuietInit /\ fn \in RgbInputs
SpecRoundTrip == InitRoundTrip /\ [][NextRoundTrip]_vars

RoundTripApplied == fn.name = "hexToRgb"

(* C32: hexToRgb(rgbToHex(r, g, b)) is {r, g, b} for all integers r, g, b  *)
(* from 0 to 255.                                                          *)
C32_HexRoundTrip ==
  RoundTripApplied => fn.result = Rgb(fn.r, fn.g, fn.b)
C32_Witness ==
  /\ RoundTripApplied
  /\ fn.r = 10 /\ fn.g = 255 /\ fn.b = 0
  /\ fn.hex = "#0aff00"
  /\ fn.result = Rgb(10, 255, 0)

(* ---- the TIME_PHASES timeline ------------------------------------------- *)
FirstPhase == TIME_PHASES[1]
LastPhase == TIME_PHASES[Len(TIME_PHASES)]

(* C33: the times of TIME_PHASES are non-decreasing, the first breakpoint  *)
(* is at 0 and the last at 24, the palette at 0 is the palette at 24, and  *)
(* every palette name of the timeline is a key of PALETTES.                *)
C33_TimelineWellFormed ==
  /\ \A i \in 1..(Len(TIME_PHASES) - 1) :
       Le(TIME_PHASES[i].time, TIME_PHASES[i + 1].time)
  /\ FirstPhase.time = FromInt(0)
  /\ LastPhase.time = FromInt(24)
  /\ FirstPhase.palette = LastPhase.palette
  /\ PALETTES[FirstPhase.palette] = PALETTES[LastPhase.palette]
  /\ \A i \in 1..Len(TIME_PHASES) : TIME_PHASES[i].palette \in DOMAIN PALETTES
  /\ PaletteApplied
     => /\ TIME_PHASES[fn.prevPhase].palette \in DOMAIN PALETTES
        /\ TIME_PHASES[fn.nextPhase].palette \in DOMAIN PALETTES
        /\ Le(TIME_PHASES[fn.prevPhase].time, TIME_PHASES[fn.nextPhase].time)
(* getCurrentPalette has read the last pair of the timeline, just before   *)
(* midnight, and returned the palette the day starts with                  *)
C33_Witness ==
  /\ PaletteApplied
  /\ fn.nextPhase = Len(TIME_PHASES)
  /\ Lt(FromInt(20), fn.solarTime)
  /\ fn.result = PALETTES[FirstPhase.palette]

(* ---- lastAppliedColors -------------------------------------------------- *)
(* The handler segment just run (primed) or run last (unprimed). *)
ApplyFailedIn(e) == e.op \in {"write1Done", "write2Done"} /\ e.path = "catch"
ApplySucceededIn(e) == e.op = "write2Done" /\ e.path = "success"
PreviewWrittenIn(e) == e.op = "previewWriteDone" /\ e.path = "success"

(* lastAppliedColors is assigned only by a step that completes a write:    *)
(* the serialised map of a successful apply of updateColors, or of a       *)
(* successful write of the apply-preview-colors command; a failing apply   *)
(* leaves it as it was.                                                    *)
LastAppliedStep ==
  /\ lastAppliedColors' # lastAppliedColors
     => \/ ApplySucceededIn(ev')
        \/ /\ PreviewWrittenIn(ev')
           /\ lastAppliedColors' = Stringify(store'.workbench)
  /\ ApplyFailedIn(ev') => lastAppliedColors' = lastAppliedColors
  /\ ApplySucceededIn(ev')
     => lastAppliedColors' = Stringify(SolarColorMap(ev'.call.map))
(* A non-forced tick right after a failed apply, with the extension        *)
(* enabled and no preview suspending it.                                   *)
TickAfterFailure ==
  /\ ApplyFailedIn(ev)
  /\ ev'.op = "tick"
  /\ enabled /\ ~isPreviewing

(* C34 as stated: lastAppliedColors changes only after a successful write; *)
(* an apply of updateColors in which a config update fails leaves it       *)
(* unchanged, so that the next non-forced tick retries the write; after a  *)
(* successful apply it is the serialised colour map that was written.      *)
C34_FailedApplyAlwaysRetried ==
  [][/\ LastAppliedStep
     /\ TickAfterFailure => ev'.path = "apply"]_vars
(* C34: lastAppliedColors changes only after a successful write; an apply  *)
(* in which a config update fails leaves it unchanged; after a successful  *)
(* apply it is the serialised colour map that was written.  The next       *)
(* non-forced tick after a failed apply writes again whenever the current  *)
(* map is not the one lastAppliedColors records.                           *)
C34_LastAppliedFollowsSuccessfulWrite ==
  [][/\ LastAppliedStep
     /\ /\ TickAfterFailure
        /\ lastAppliedColors # Stringify(SolarColorMap(solar))
        => ev'.path = "apply"]_vars
(* a non-forced apply has failed after an earlier one succeeded, and       *)
(* lastAppliedColors still holds the earlier map                           *)
C34_Witness ==
  /\ ApplyFailedIn(ev) /\ ~ev.force
  /\ lastAppliedColors # EmptyString
  /\ lastAppliedColors # Stringify(SolarColorMap(ev.call.map))
  /\ solar = ev.call.map
  /\ enabled /\ ~isPreviewing

(* ---- the pair getCurrentPalette selects --------------------------------- *)
(* prev.time <= solarTime < next.time for the adjacent pair starting at i *)
Between(i) ==
  /\ Le(TIME_PHASES[i].time, fn.solarTime)
  /\ Lt(fn.solarTime, TIME_PHASES[i + 1].time)
(* the factor t handed to lerpPalette *)
FactorUsed ==
  Factor(fn.solarTime, TIME_PHASES[fn.prevPhase], TIME_PHASES[fn.nextPhase])

(* C35: for every solar time in [0,24) the pair getCurrentPalette selects  *)
(* is the one adjacent pair with prev.time <= solarTime < next.time, and   *)
(* the factor t it passes to lerpPalette is in [0,1).                      *)
C35_UniquePairAndFactorInRange ==
  PaletteApplied /\ InRange(fn.solarTime)
  => /\ fn.nextPhase = fn.prevPhase + 1
     /\ Between(fn.prevPhase)
     /\ \A i \in 1..(Len(TIME_PHASES) - 1) : Between(i) => i = fn.prevPhase
     /\ Le(Zero, FactorUsed)
     /\ Lt(FactorUsed, FromInt(1))
(* the last double before 4 o'clock: the first pair, with t = 1 - 2^-53 *)
C35_Witness ==
  /\ PaletteApplied
  /\ fn.solarTime = Sub(FromInt(4), Num("num", FALSE, <<1>>, -51))
  /\ fn.prevPhase = 1
  /\ FactorUsed = Sub(FromInt(1), Num("num", FALSE, <<1>>, -53))

(* ---- updateErrorCount --------------------------------------------------- *)
(* Failing applies next to every other event the counter could react to:   *)
(* previews of both kinds of cooldown with their writes succeeding or      *)
(* failing, skipped ticks, forced updates and configuration changes.       *)
CountCalls == 1
CountErrCap == 2
CountPreviews == 1

NextCount ==
  \/ Activate(0)
  \/ TimerTick(0) /\ InFlight' <= CountCalls
  \/ UpdateNow(0) /\ InFlight' <= CountCalls
  \/ \E en \in BOOLEAN :
       ConfigChanged(en, showNotifications, 0) /\ InFlight' <= CountCalls
  \/ \E c \in CallRecords, ok \in BOOLEAN :
       Write1Done(c, ok) /\ updateErrorCount' <= CountErrCap
  \/ \E c \in CallRecords, ok \in BOOLEAN :
       Write2Done(c, ok) /\ updateErrorCount' <= CountErrCap
  \/ ApplyPreviewColorsCommand(ValidTriple)
       /\ Len(previews') <= CountPreviews
  \/ PanelPreviewPhase(ValidTriple) /\ Len(previews') <= CountPreviews
  \/ DirectPreviewPhase(ValidTriple) /\ Len(previews') <= CountPreviews
  \/ \E k \in 1..MaxPreviews, ok \in BOOLEAN : PreviewWriteDone(k, ok)
  \/ \E t \in timers : CooldownExpired(t)
  \/ \E d \in TimeSteps : Advance(d)

InitCount ==
  /\ Init /\ showNotifications = FALSE /\ solar = "m1"
  /\ updateIntervalSeconds = 5

SpecCount == InitCount /\ [][NextCount]_vars

(* The steps that may change the counter: the end of an apply of           *)
(* updateColors, and the expiry of a cooldown the command armed.           *)
CounterStep(e) ==
  \/ ApplyFailedIn(e)
  \/ ApplySucceededIn(e)
  \/ e.op = "cooldownExpired" /\ e.path = "cmd"

(* C36: updateErrorCount is the number of applies of updateColors that     *)
(* have failed since the latest of activation, the last successful apply   *)
(* and the last expiry of a cooldown armed by the apply-preview-colors     *)
(* command; no other event changes it.                                     *)
C36_ErrorCountIsFailuresSinceReset ==
  [][/\ updateErrorCount = failRun
     /\ updateErrorCount' = failRun'
     /\ updateErrorCount' # updateErrorCount => CounterStep(ev')
     /\ ApplyFailedIn(ev') => updateErrorCount' = updateErrorCount + 1
     /\ ApplySucceededIn(ev') => updateErrorCount' = 0
     /\ ev'.op = "cooldownExpired" /\ ev'.path = "cmd"
        => updateErrorCount' = 0]_vars
(* the panel's own cooldown has run out after a failed apply and the       *)
(* failure is still counted                                                *)
C36_Witness ==
  /\ ev.op = "cooldownExpired" /\ ev.path = "panel"
  /\ updateErrorCount = 1
  /\ failRun = 1
  /\ ~isPreviewing

(* ---- deactivate --------------------------------------------------------- *)
(* deactivate() with its clearInterval forgotten. *)
Deactivate_KeepsTimer ==
  /\ activated
  /\ activated' = FALSE
  /\ statusShown' = FALSE
  /\ ev' = Quiet("deactivate", "none")
  /\ UNCHANGED <<cfgVars, solar, store, intervalVars, previewVars,
                 lastAppliedColors, updateErrorCount, calls, previews,
                 isUpdating, fixedVars, histVars>>

(* deactivate(): if (updateInterval) clearInterval(updateInterval).  The   *)
(* handle keeps its value; everything pushed to context.subscriptions (the *)
(* status bar item, the commands, the configuration listener) is disposed  *)
(* with the extension, while promises in flight run on.                    *)
Deactivate ==
  /\ activated
  /\ activated' = FALSE
  /\ intervalTimers' = IF updateInterval THEN ClearInterval(intervalTimers)
                       ELSE intervalTimers
  /\ statusShown' = FALSE
  /\ ev' = Quiet("deactivate", "none")
  /\ UNCHANGED <<cfgVars, solar, store, updateInterval, previewVars,
                 lastAppliedColors, updateErrorCount, calls, previews,
                 isUpdating, fixedVars, histVars>>

(* Activation, configuration changes of every setting, ticks and           *)
(* deactivation, with the extension activated again afterwards.            *)
LifeCalls == 1

NextLifecycle ==
  \/ \E dirty \in 0..MaxDirty : Activate(dirty) /\ InFlight' <= LifeCalls
  \/ \E dirty \in 0..MaxDirty : TimerTick(dirty) /\ InFlight' <= LifeCalls
  \/ \E en \in BOOLEAN, sn \in BOOLEAN, secs \in IntervalChoices,
        dirty \in 0..MaxDirty :
       /\ OnDidChangeConfiguration(en, sn, secs, dirty)
       /\ InFlight' <= LifeCalls
  \/ \E c \in CallRecords : SaveDone(c)
  \/ \E c \in CallRecords, ok \in BOOLEAN :
       Write1Done(c, ok) /\ updateErrorCount' <= SchedErrCap
  \/ \E c \in CallRecords, ok \in BOOLEAN :
       Write2Done(c, ok) /\ updateErrorCount' <= SchedErrCap
  \/ Deactivate
  \/ SunMoves

InitLifecycle == Init /\ panelVariant = "command"

SpecLifecycle == InitLifecycle /\ [][NextLifecycle]_vars

(* the one timer restartUpdateInterval leaves alive *)
OneTimer(secs) == {[ms |-> secs * 1000, cur |-> TRUE]}

(* C37: at most one periodic update timer is alive after any sequence of   *)
(* activations and configuration changes: restartUpdateInterval clears the *)
(* previous timer before it creates the new one; deactivate leaves no      *)
(* timer alive, and no timer tick calls updateColors after it.             *)
C37_AtMostOneTimerNoneAfterDeactivate ==
  /\ [](Cardinality(intervalTimers) <= 1)
  /\ [][ev'.op \in {"activate", "configChanged"}
        => intervalTimers' = OneTimer(updateIntervalSeconds')]_vars
  /\ [][ev'.op = "deactivate" => intervalTimers' = {}]_vars
  /\ [][ev'.op = "tick" => activated]_vars
(* deactivated after a configuration change had replaced the timer, with   *)
(* the apply that change started still in flight                           *)
C37_Witness ==
  /\ ev.op = "deactivate"
  /\ ~activated
  /\ updateInterval
  /\ updateIntervalSeconds = 60
  /\ intervalTimers = {}
  /\ InFlight = 1

(* ---- the end of a suspension -------------------------------------------- *)
(* Preview requests of every entry point, with a missing argument (the     *)
(* command throws), an invalid one and a valid one whose write succeeds or *)
(* fails, next to the ticks they suspend.  The runtime runs a timer's      *)
(* callback once its delay has passed, and time passes.                    *)
SuspendCalls == 1
SuspendPreviews == 1
SuspendInputs == {NoColors, ValidTriple, Triple(Undef, Hex, Hex)}

SuspendTick == TimerTick(0) /\ InFlight' <= SuspendCalls
SuspendExpiry == \E t \in timers : CooldownExpired(t)
SuspendAdvance == \E d \in TimeSteps : Advance(d)

NextSuspend ==
  \/ Activate(0)
  \/ SuspendTick
  \/ \E c \in CallRecords, ok \in BOOLEAN :
       Write1Done(c, ok) /\ updateErrorCount' <= SchedErrCap
  \/ \E c \in CallRecords, ok \in BOOLEAN :
       Write2Done(c, ok) /\ updateErrorCount' <= SchedErrCap
  \/ \E colors \in SuspendInputs :
       ApplyPreviewColorsCommand(colors) /\ Len(previews') <= SuspendPreviews
  \/ \E colors \in SuspendInputs :
       PanelPreviewPhase(colors) /\ Len(previews') <= SuspendPreviews
  \/ \E colors \in SuspendInputs :
       DirectPreviewPhase(colors) /\ Len(previews') <= SuspendPreviews
  \/ \E k \in 1..MaxPreviews, ok \in BOOLEAN : PreviewWriteDone(k, ok)
  \/ SuspendExpiry
  \/ SuspendAdvance

InitSuspend ==
  /\ Init /\ enabled = TRUE /\ showNotifications = FALSE /\ solar = "m1"
  /\ updateIntervalSeconds = 5

SpecSuspend ==
  /\ InitSuspend /\ [][NextSuspend]_vars
  /\ WF_vars(SuspendExpiry) /\ WF_vars(SuspendAdvance)

(* a preview request arrives *)
PreviewRequested == ev'.op \in PreviewOps

(* C38: whenever isPreviewing is true exactly one cooldown timer is        *)
(* pending, the one previewTimeout refers to, also after a preview whose   *)
(* write failed or whose command threw; so unless preview requests keep    *)
(* arriving, isPreviewing becomes false again, and a non-forced tick made  *)
(* then is not skipped for a preview.                                      *)
C38_SuspensionAlwaysEnds ==
  /\ [](isPreviewing
        => /\ previewTimeout
           /\ Cardinality(timers) = 1
           /\ \A t \in timers : t.cur)
  /\ []<>(~isPreviewing) \/ []<><<PreviewRequested>>_vars
  /\ [][ev'.op = "tick" /\ ~isPreviewing => ev'.path # "previewing"]_vars
(* the command was called without colours and threw, after it had          *)
(* suspended the scheduler and armed its cooldown                          *)
C38_Witness ==
  /\ ev.op = "applyPreviewColors"
  /\ ev.path = "typeError"
  /\ ev.threw
  /\ isPreviewing
  /\ timers = {[kind |-> "cmd", rem |-> CmdCooldownMs, cur |-> TRUE]}

(* ---- the tick after a preview ------------------------------------------- *)
(* the colours in the style store are a preview's, not the scheduler's *)
PreviewColorsInStore ==
  /\ store.workbench # NoMap
  /\ Head(store.workbench) \in {"preview", "custom"}
(* nothing suspends the scheduler and no write is under way *)
SchedulerFree ==
  /\ enabled /\ ~isPreviewing
  /\ timers = {}
  /\ previews = <<>>
  /\ InFlight = 0

(* C39: once a preview has written to the style store and its cooldown has *)
(* expired, the first non-forced tick with the extension enabled writes    *)
(* the solar colour map again, whichever path wrote the preview colours    *)
(* (the apply-preview-colors command, the panel's direct write,            *)
(* applyCustomPalettes) and even when the solar map is the one applied     *)
(* before the preview.                                                     *)
C39_TickRestoresAfterPreview ==
  [][ev'.op = "tick" /\ SchedulerFree /\ PreviewColorsInStore
     => ev'.path = "apply"]_vars

(* ---- live colour edits -------------------------------------------------- *)
(* getCurrentPhase, given the value of getSolarTime(config) *)
GetCurrentPhase(solarTime) ==
  IF Lt(solarTime, FromInt(5)) THEN "night"
  ELSE IF Lt(solarTime, FromInt(6)) THEN "pre-dawn"
  ELSE IF Lt(solarTime, FromInt(7)) THEN "dawn"
  ELSE IF Lt(solarTime, FromInt(8)) THEN "sunrise"
  ELSE IF Lt(solarTime, FromInt(11)) THEN "morning"
  ELSE IF Lt(solarTime, FromInt(14)) THEN "midday"
  ELSE IF Lt(solarTime, FromInt(17)) THEN "afternoon"
  ELSE IF Lt(solarTime, FromInt(18)) THEN "golden hour"
  ELSE IF Lt(solarTime, FromInt(19)) THEN "sunset"
  ELSE IF Lt(solarTime, FromInt(20)) THEN "dusk"
  ELSE "night"

(* The keys of the palette map the panel sends with colorsChanged: those   *)
(* of defaultPalettes, which every edit keeps.                             *)
DefaultPaletteKeys ==
  {"night", "preDawn", "dawn", "sunrise", "morning", "midday", "afternoon",
   "goldenHour", "sunset", "dusk"}
(* customColors[phase] for the map the panel sends *)
CustomColors(phase) ==
  IF phase \in DefaultPaletteKeys THEN ValidTriple ELSE NoColors

(* The onColorsChanged callback of openSettings at the solar time fn       *)
(* holds: applyCustomPalettes(colors).                                     *)
OnColorsChanged ==
  /\ fn.name = "solarTime"
  /\ ApplyCustomPalettes(CustomColors(GetCurrentPhase(fn.solarTime)))

NextPhase ==
  \/ Activate(0)
  \/ \E c \in CallRecords, ok \in BOOLEAN : Write1Done(c, ok)
  \/ \E c \in CallRecords, ok \in BOOLEAN : Write2Done(c, ok)
  \/ OnColorsChanged
  \/ \E k \in 1..MaxPreviews, ok \in BOOLEAN : PreviewWriteDone(k, ok)

InitPhase == QuietInit /\ fn \in PaletteInputs

SpecPhase == InitPhase /\ [][NextPhase]_vars

(* C40: a colorsChanged message applies the edited colours of the current  *)
(* phase whatever phase the day is in: the map the panel sends has an      *)
(* entry under every name getCurrentPhase returns, and applyCustomPalettes *)
(* writes it.                                                              *)
C40_LiveEditAppliesInEveryPhase ==
  ev.op = "applyCustomPalettes"
  => /\ GetCurrentPhase(fn.solarTime) \in DefaultPaletteKeys
     /\ ev.path = "custom"
     /\ ev.wrote = {"workbench"}
====
